---------------------------- MODULE Spec2Model ----------------------------
(***************************************************************************)
(* A model of template_app.py: the template-acquisition wizard (the        *)
(* two-click protocol, apply, manual input, skip, the two resets) and the  *)
(* batch orchestrator.                                                      *)
(*                                                                         *)
(* Streamlit runs the script once per user event.  One action of the       *)
(* specification is one such run: the widget that caused the run returns   *)
(* its value, the handler under it runs to its st.rerun(), and the state   *)
(* left in st.session_state is the next state.                             *)
(*                                                                         *)
(* The Korean field names of FIELDS are written with the names the         *)
(* specification gives them (PlateNumber, Date, ...).                      *)
(***************************************************************************)
EXTENDS Integers, Sequences, FiniteSets, TLC

(***************************************************************************)
(* Bounds of the model.                                                    *)
(***************************************************************************)
\* How many of the six FIELDS the wizard walks through.
NumFields == 2

\* Display pixels the operator clicks, and the numbers typed in manual input.
ClickXs == {50, 200}
ClickYs == {50, 100}

\* The uploaded representative image: (width, height) in pixels.
OriginalSize == <<800, 600>>

\* The longest batch of uploaded pages.
MaxPages == 2

\* The most whitespace the OCR puts between two syllables of the marker.
MaxGap == 1

\* The most pieces (a number and what follows it) of a written date.
MaxPieces == 2

\* The rows of a roster.
MaxRows == 2

(***************************************************************************)
(* Program constants.                                                      *)
(***************************************************************************)
FieldNames ==
    <<"PlateNumber", "Date", "Location", "Fine", "DueDate", "Description">>

FIELDS == SubSeq(FieldNames, 1, NumFields)

\* init_session_state: "display_width": 800
DisplayWidth == 800

\* The value of an unset session key (Python's None).
None == <<"None">>

\* An empty dict.
EmptyDict == [f \in {} |-> <<>>]

VARIABLES
    current_step,         \* st.session_state.current_step
    coordinates,          \* st.session_state.coordinates: field -> <<x1,y1,x2,y2>>
    current_field_index,  \* st.session_state.current_field_index (0-based)
    temp_coords,          \* st.session_state.temp_coords: sequence of points
    click_step,           \* st.session_state.click_step: 0 or 1
    last_click_sig,       \* st.session_state.last_click_sig
    lastOp,               \* history: the event of the last script run
    skipped,              \* history: fields skipped since the last reset
    cleared,              \* history: a reset has cleared committed Regions
    uploaded_images,      \* st.session_state.uploaded_images: the pages
    uploaded_image,       \* st.session_state.uploaded_image: the page at work
    full_ocr_text,        \* st.session_state.full_ocr_text
    is_police_notice,     \* st.session_state.is_police_notice
    ocr_results,          \* st.session_state.ocr_results
    batch_results,        \* st.session_state.batch_results
    all_results,          \* process_all_images: the local list all_results
    idx,                  \* process_all_images: the loop index (1-based)
    pc,                   \* process_all_images: where the handler is
    messages,             \* what st.error has shown during the batch
    failed,               \* history: fields whose region OCR failed on the last page
    vehicle_users_df,     \* st.session_state.vehicle_users_df: the roster, or None
    arg,                  \* the argument of a call of one of the text functions
    ret                   \* what that call returned

\* The wizard's variables and the batch's.
wvars == <<current_step, current_field_index, temp_coords, click_step,
           last_click_sig, lastOp, skipped, cleared>>
bvars == <<uploaded_images, uploaded_image, full_ocr_text, is_police_notice,
           ocr_results, batch_results, all_results, idx, pc, messages, failed>>

fvars == <<vehicle_users_df, arg, ret>>

vars == <<wvars, coordinates, bvars, fvars>>

\* The acquisition state the claims speak of.
acq == <<coordinates, current_field_index, temp_coords, click_step>>

Min(a, b) == IF a <= b THEN a ELSE b
Max(a, b) == IF a >= b THEN a ELSE b

\* dict[key] = value
DictSet(d, k, v) == [x \in DOMAIN d \cup {k} |-> IF x = k THEN v ELSE d[x]]

\* Python's round() of the quotient n/d (d > 0, n >= 0): to nearest, ties to even.
RoundDiv(n, d) ==
    LET q == n \div d
        r == n % d
    IN  IF 2 * r < d THEN q
        ELSE IF 2 * r > d THEN q + 1
        ELSE IF q % 2 = 0 THEN q ELSE q + 1

\* ox = int(round(clicked["x"] / scale)), scale = display_width / original_width
ToOriginal(c) == RoundDiv(c * OriginalSize[1], DisplayWidth)

\* The field under the cursor (FIELDS[current_field_index]).
CurrentField == FIELDS[current_field_index + 1]

Op(name, pt) == [op |-> name, pt |-> pt]

(***************************************************************************)
(* init_session_state                                                      *)
(***************************************************************************)
Init ==
    /\ current_step = "upload_files"
    /\ coordinates = EmptyDict
    /\ current_field_index = 0
    /\ temp_coords = <<>>
    /\ click_step = 0
    /\ last_click_sig = None
    /\ lastOp = Op("init", <<>>)
    /\ skipped = {}
    /\ cleared = FALSE
    /\ uploaded_images = <<>>
    /\ uploaded_image = None
    /\ full_ocr_text = <<>>
    /\ is_police_notice = FALSE
    /\ ocr_results = EmptyDict
    /\ batch_results = <<>>
    /\ all_results = <<>>
    /\ idx = 0
    /\ pc = "idle"
    /\ messages = {}
    /\ failed = {}
    /\ vehicle_users_df = None
    /\ arg = <<>>
    /\ ret = <<>>

\* A variant of reset_template that puts the cursor back and keeps the
\* committed Regions.
ResetTemplateState_KeepsRegions ==
    /\ coordinates' = coordinates
    /\ current_field_index' = 0
    /\ temp_coords' = <<>>
    /\ click_step' = 0
    /\ last_click_sig' = None
    /\ skipped' = {}
    /\ cleared' = (cleared \/ DOMAIN coordinates # {})

(***************************************************************************)
(* reset_template                                                          *)
(***************************************************************************)
ResetTemplateState ==
    /\ coordinates' = EmptyDict
    /\ current_field_index' = 0
    /\ temp_coords' = <<>>
    /\ click_step' = 0
    /\ last_click_sig' = None
    /\ skipped' = {}
    /\ cleared' = (cleared \/ DOMAIN coordinates # {})

(***************************************************************************)
(* file_upload_section.  Both files are taken as uploaded.                 *)
(***************************************************************************)
\* "template coordinates reassign": reset_template(), then the setup step.
ReassignTemplate ==
    /\ UNCHANGED <<bvars, fvars>>
    /\ current_step = "upload_files"
    /\ ResetTemplateState
    /\ current_step' = "template_setup"
    /\ lastOp' = Op("reset", <<>>)

\* "next step", no police_template.json on disk: the setup step, state kept.
NextStepNoTemplateFile ==
    /\ UNCHANGED <<bvars, fvars>>
    /\ current_step = "upload_files"
    /\ current_step' = "template_setup"
    /\ lastOp' = Op("nav", <<>>)
    /\ UNCHANGED <<acq, last_click_sig, skipped, cleared>>

\* "next step", police_template.json on disk and readable: its coordinates
\* replace the session's and the wizard goes to the OCR step.  The file holds
\* a Region for every field; the fields skipped in the session say nothing
\* of it.
NextStepTemplateFile ==
    /\ UNCHANGED <<bvars, fvars>>
    /\ current_step = "upload_files"
    /\ coordinates' = [f \in {FIELDS[i] : i \in 1..Len(FIELDS)} |-> <<50, 50, 200, 100>>]
    /\ current_step' = "ocr_process"
    /\ lastOp' = Op("nav", <<>>)
    /\ skipped' = {}
    /\ UNCHANGED <<current_field_index, temp_coords, click_step, last_click_sig, cleared>>

\* reset_all_states, the "back to the start" button of the results step,
\* which follows the OCR step.
ResetAllStates ==
    /\ UNCHANGED <<bvars, fvars>>
    /\ current_step = "ocr_process"
    /\ current_step' = "upload_files"
    /\ ResetTemplateState
    /\ lastOp' = Op("reset_all", <<>>)

(***************************************************************************)
(* create_template_sidebar: the two sidebar buttons.                       *)
(***************************************************************************)
SidebarReset ==
    /\ UNCHANGED <<bvars, fvars>>
    /\ current_step = "template_setup"
    /\ ResetTemplateState
    /\ lastOp' = Op("reset", <<>>)
    /\ UNCHANGED current_step

BackToUpload ==
    /\ UNCHANGED <<bvars, fvars>>
    /\ current_step = "template_setup"
    /\ current_step' = "upload_files"
    /\ lastOp' = Op("nav", <<>>)
    /\ UNCHANGED <<acq, last_click_sig, skipped, cleared>>

\* coordinate_selection_section is shown while the cursor is inside FIELDS.
Selecting ==
    /\ current_step = "template_setup"
    /\ current_field_index < Len(FIELDS)

\* A variant of handle_image_click that stores the two points as clicked,
\* without the min/max ordering.
HandleImageClick_Unordered(x, y) ==
    IF click_step = 0
    THEN /\ temp_coords' = <<<<x, y>>>>
         /\ click_step' = 1
    ELSE /\ temp_coords' = <<temp_coords[1], <<x, y>>>>
         /\ click_step' = click_step

\* A variant of handle_image_click that orders the x of the two points and
\* takes the y as clicked.
HandleImageClick_OrdersXOnly(x, y) ==
    IF click_step = 0
    THEN /\ temp_coords' = <<<<x, y>>>>
         /\ click_step' = 1
    ELSE LET x1 == temp_coords[1][1]
             y1 == temp_coords[1][2]
         IN  /\ temp_coords' = << <<Min(x1, x), y1>>, <<Max(x1, x), y>> >>
             /\ click_step' = click_step

(***************************************************************************)
(* handle_image_click(x, y, current_field)                                 *)
(***************************************************************************)
HandleImageClick(x, y) ==
    IF click_step = 0
    THEN /\ temp_coords' = <<<<x, y>>>>
         /\ click_step' = 1
    ELSE LET x1 == temp_coords[1][1]
             y1 == temp_coords[1][2]
         IN  /\ temp_coords' = << <<Min(x1, x), Min(y1, y)>>,
                                  <<Max(x1, x), Max(y1, y)>> >>
             /\ click_step' = click_step

\* The signature of a click at display pixel (cx, cy) in the current state.
ClickSig(cx, cy) == <<cx, cy, current_field_index, click_step>>

\* A variant of the click delivery without the last_click_sig comparison.
Click_NoSignature(cx, cy) ==
    /\ UNCHANGED <<bvars, fvars>>
    /\ Selecting
    /\ lastOp' = Op("click", <<cx, cy>>)
    /\ last_click_sig' = ClickSig(cx, cy)
    /\ HandleImageClick(ToOriginal(cx), ToOriginal(cy))
    /\ UNCHANGED <<current_step, coordinates, current_field_index, skipped, cleared>>

(***************************************************************************)
(* create_clickable_image_with_coordinates: a click at display pixel       *)
(* (cx, cy) is delivered by the image component.                           *)
(***************************************************************************)
Click(cx, cy) ==
    /\ UNCHANGED <<bvars, fvars>>
    /\ Selecting
    /\ lastOp' = Op("click", <<cx, cy>>)
    /\ IF last_click_sig # ClickSig(cx, cy)
       THEN /\ last_click_sig' = ClickSig(cx, cy)
            /\ LET ox == ToOriginal(cx)
                   oy == ToOriginal(cy)
               IN  IF /\ 0 <= ox /\ ox < OriginalSize[1]
                      /\ 0 <= oy /\ oy < OriginalSize[2]
                   THEN HandleImageClick(ox, oy)
                   ELSE UNCHANGED <<temp_coords, click_step>>
       ELSE UNCHANGED <<last_click_sig, temp_coords, click_step>>
    /\ UNCHANGED <<current_step, coordinates, current_field_index, skipped, cleared>>

(***************************************************************************)
(* create_control_buttons                                                  *)
(***************************************************************************)
\* A variant of "select again" wired to reset_template.
SoftReset_AsReset ==
    /\ UNCHANGED <<bvars, fvars>>
    /\ Selecting
    /\ ResetTemplateState
    /\ lastOp' = Op("soft_reset", <<>>)
    /\ UNCHANGED current_step

\* "select again"
SoftReset ==
    /\ UNCHANGED <<bvars, fvars>>
    /\ Selecting
    /\ temp_coords' = <<>>
    /\ click_step' = 0
    /\ lastOp' = Op("soft_reset", <<>>)
    /\ UNCHANGED <<current_step, coordinates, current_field_index,
                   last_click_sig, skipped, cleared>>

\* apply_coordinates(current_field); the button is enabled with two points.
ApplyCoordinates ==
    /\ UNCHANGED <<bvars, fvars>>
    /\ Selecting
    /\ Len(temp_coords) = 2
    /\ coordinates' = DictSet(coordinates, CurrentField,
                              <<temp_coords[1][1], temp_coords[1][2],
                                temp_coords[2][1], temp_coords[2][2]>>)
    /\ current_field_index' = current_field_index + 1
    /\ temp_coords' = <<>>
    /\ click_step' = 0
    /\ lastOp' = Op("apply", <<>>)
    /\ UNCHANGED <<current_step, last_click_sig, skipped, cleared>>

\* A variant of skip_current_field that keeps a finished selection as the
\* field's Region.
SkipCurrentField_KeepsSelection ==
    /\ UNCHANGED <<bvars, fvars>>
    /\ Selecting
    /\ coordinates' = IF Len(temp_coords) = 2
                      THEN DictSet(coordinates, CurrentField,
                                   <<temp_coords[1][1], temp_coords[1][2],
                                     temp_coords[2][1], temp_coords[2][2]>>)
                      ELSE coordinates
    /\ current_field_index' = current_field_index + 1
    /\ temp_coords' = <<>>
    /\ click_step' = 0
    /\ skipped' = skipped \cup {CurrentField}
    /\ lastOp' = Op("skip", <<>>)
    /\ UNCHANGED <<current_step, last_click_sig, cleared>>

\* skip_current_field
SkipCurrentField ==
    /\ UNCHANGED <<bvars, fvars>>
    /\ Selecting
    /\ current_field_index' = current_field_index + 1
    /\ temp_coords' = <<>>
    /\ click_step' = 0
    /\ skipped' = skipped \cup {CurrentField}
    /\ lastOp' = Op("skip", <<>>)
    /\ UNCHANGED <<current_step, coordinates, last_click_sig, cleared>>

\* The validation show_manual_input_modal makes.
ManualValid(x1, y1, x2, y2) == x1 < x2 /\ y1 < y2

\* show_manual_input_modal: the four numbers typed, then "apply manual".
\* Streamlit shows this form only in the run the "manual input" button
\* caused; the model lets its apply button be delivered all the same.
ManualApply(x1, y1, x2, y2) ==
    /\ UNCHANGED <<bvars, fvars>>
    /\ Selecting
    /\ lastOp' = Op("manual", <<x1, y1, x2, y2>>)
    /\ IF ManualValid(x1, y1, x2, y2)
       THEN /\ coordinates' = DictSet(coordinates, CurrentField, <<x1, y1, x2, y2>>)
            /\ current_field_index' = current_field_index + 1
            /\ temp_coords' = <<>>
            /\ click_step' = 0
       ELSE UNCHANGED acq
    /\ UNCHANGED <<current_step, last_click_sig, skipped, cleared>>

(***************************************************************************)
(* template_completion_section: save_template(), then the OCR step.        *)
(***************************************************************************)
SaveTemplate ==
    /\ UNCHANGED <<bvars, fvars>>
    /\ current_step = "template_setup"
    /\ current_field_index >= Len(FIELDS)
    /\ current_step' = "ocr_process"
    /\ lastOp' = Op("save", <<>>)
    /\ UNCHANGED <<acq, last_click_sig, skipped, cleared>>

Next ==
    \/ ReassignTemplate
    \/ NextStepNoTemplateFile
    \/ NextStepTemplateFile
    \/ ResetAllStates
    \/ SidebarReset
    \/ BackToUpload
    \/ \E cx \in ClickXs, cy \in ClickYs : Click(cx, cy)
    \/ SoftReset
    \/ ApplyCoordinates
    \/ SkipCurrentField
    \/ \E x1 \in ClickXs, x2 \in ClickXs, y1 \in ClickYs, y2 \in ClickYs :
          ManualApply(x1, y1, x2, y2)
    \/ SaveTemplate

Spec == Init /\ [][Next]_vars

(***************************************************************************)
(* Texts.  A text is the sequence of its characters; a Korean syllable is  *)
(* one character, written with its romanization ("gyeong" is U+ACBD).      *)
(***************************************************************************)
\* What \s matches and str.strip() removes.
Whitespace == {" ", "\t", "\n", "\r"}

RECURSIVE RemoveWhitespace(_)
\* re.sub(r"\s+", "", text)
RemoveWhitespace(t) ==
    IF t = <<>> THEN <<>>
    ELSE IF Head(t) \in Whitespace THEN RemoveWhitespace(Tail(t))
    ELSE <<Head(t)>> \o RemoveWhitespace(Tail(t))

RECURSIVE LStrip(_)
LStrip(t) ==
    IF t # <<>> /\ Head(t) \in Whitespace THEN LStrip(Tail(t)) ELSE t

RECURSIVE RStrip(_)
RStrip(t) ==
    IF t # <<>> /\ t[Len(t)] \in Whitespace
    THEN RStrip(SubSeq(t, 1, Len(t) - 1)) ELSE t

\* str.strip()
Strip(t) == RStrip(LStrip(t))

\* sub in text
Contains(t, sub) ==
    \E i \in 1..(Len(t) - Len(sub) + 1) : SubSeq(t, i, i + Len(sub) - 1) = sub

\* "경찰청 고지" and "경찰청고지"
Marker == <<"gyeong", "chal", "cheong", " ", "go", "ji">>
MarkerJoined == <<"gyeong", "chal", "cheong", "go", "ji">>

(***************************************************************************)
(* Characters, numbers and the pieces of the regular expressions.          *)
(***************************************************************************)
\* The decimal digits, in order.
DigitChars == <<"0", "1", "2", "3", "4", "5", "6", "7", "8", "9">>
Digits == {DigitChars[i] : i \in 1..10}

\* The Hangul syllables the texts of the model are written with ([가-힣]).
Hangul ==
    {"ga", "na", "da", "gyeong", "chal", "cheong", "go", "ji", "seo",
     "nyeon", "wol", "il", "won", "cha", "ryang", "beon", "ho", "dae",
     "sang", "geum", "aek", "gwa", "tae", "ryo", "beom", "chik", "nap",
     "bu", "gi", "nae", "gam", "san", "si", "ja", "wi", "ban", "bal",
     "saeng", "han", "man", "jang", "so", "chi", "jeom", "ap", "bang",
     "hyang", "dwi", "ju", "byeon", "geun", "cheo", "dan", "eo", "rin",
     "yi", "bo", "gu", "yeok", "ro", "gil", "gyo", "jeong", "sok", "do",
     "sin", "jung", "ang", "seon", "kki", "deul", "hoeng", "an", "jeon",
     "geo", "ri", "jin", "tong", "haeng", "yong", "sa", "yu", "hang",
     "mok", "nam", "yeo", "ul"}

\* The value of a local name: the element of a set of one element.  A name
\* bound this way holds a value, computed once, as a local variable does.
Only(S) == CHOOSE v \in S : TRUE

\* The character at position i of t, or "" outside t.
At(t, i) == IF i >= 1 /\ i <= Len(t) THEN t[i] ELSE ""

IsDigit(c) == c \in Digits

\* t[i:] and t[:n] of Python, 1-based here.
From(t, i) == SubSeq(t, i, Len(t))
Upto(t, n) == SubSeq(t, 1, n)

\* The position after the whitespace that starts at i (\s*).
RECURSIVE SkipSpace(_, _)
SkipSpace(t, i) == IF At(t, i) \in Whitespace THEN SkipSpace(t, i + 1) ELSE i

\* The number of digits that start at i (\d*).
RECURSIVE RunLen(_, _)
RunLen(t, i) == IF IsDigit(At(t, i)) THEN 1 + RunLen(t, i + 1) ELSE 0

\* i starts a run of digits ((?<!\d)\d).
RunStart(t, i) == IsDigit(At(t, i)) /\ ~IsDigit(At(t, i - 1))

\* re.findall(r"\d+", t)
RECURSIVE DigitRuns(_)
DigitRuns(t) ==
    IF t = <<>> THEN <<>>
    ELSE IF IsDigit(Head(t))
         THEN LET n == RunLen(t, 1)
              IN  <<Upto(t, n)>> \o DigitRuns(From(t, n + 1))
         ELSE DigitRuns(Tail(t))

\* int(c) of one digit.
DigitVal(c) == (CHOOSE i \in 1..10 : DigitChars[i] = c) - 1

\* int(ds) of a text of digits.  Python's integers have no largest value;
\* here every number from 10^9 on is read as 10^9, which the code, comparing
\* such numbers with smaller limits only, cannot tell from the number.
RECURSIVE ToInt(_)
ToInt(ds) ==
    IF ds = <<>> THEN 0
    ELSE Only({IF h >= 100000000 THEN 1000000000
               ELSE 10 * h + DigitVal(ds[Len(ds)]) :
                  h \in {ToInt(Upto(ds, Len(ds) - 1))}})

\* str(n), n >= 0
RECURSIVE IntText(_)
IntText(n) ==
    IF n < 10 THEN <<DigitChars[n + 1]>>
    ELSE IntText(n \div 10) \o <<DigitChars[(n % 10) + 1]>>

\* f"{n:0wd}"
RECURSIVE Pad(_, _)
Pad(d, w) == IF Len(d) >= w THEN d ELSE Pad(<<"0">> \o d, w)
ZeroPad(n, w) == Pad(IntText(n), w)

\* f"{n:,}"
RECURSIVE Thousands(_)
Thousands(n) ==
    IF n < 1000 THEN IntText(n)
    ELSE Thousands(n \div 1000) \o <<",">> \o ZeroPad(n % 1000, 3)

\* re.sub(r"\s+", " ", t)
RECURSIVE CollapseSpace(_)
CollapseSpace(t) ==
    IF t = <<>> THEN <<>>
    ELSE IF Head(t) \in Whitespace
         THEN <<" ">> \o CollapseSpace(From(t, SkipSpace(t, 1)))
         ELSE <<Head(t)>> \o CollapseSpace(Tail(t))

\* t.split("\n")
RECURSIVE SplitLines(_)
SplitLines(t) ==
    IF \A i \in 1..Len(t) : t[i] # "\n" THEN <<t>>
    ELSE LET n == CHOOSE i \in 1..Len(t) :
                      t[i] = "\n" /\ \A j \in 1..(i - 1) : t[j] # "\n"
         IN  <<Upto(t, n - 1)>> \o SplitLines(From(t, n + 1))

\* "\n".join(lines)
RECURSIVE JoinLines(_)
JoinLines(ls) ==
    IF Len(ls) <= 1 THEN (IF ls = <<>> THEN <<>> ELSE ls[1])
    ELSE ls[1] \o <<"\n">> \o JoinLines(Tail(ls))

\* The least element of a non-empty set of positions.
First(S) == CHOOSE m \in S : \A z \in S : m <= z

\* The greatest element of a non-empty set of positions.
Last(S) == CHOOSE m \in S : \A z \in S : z <= m

\* datetime.now().year
CurrentYear == 2026

(***************************************************************************)
(* fmt_date_uniform                                                        *)
(***************************************************************************)
\* The separators of a written date ([-./]) and its unit markers (년월일).
DateSeps == {"-", ".", "/"}
YearMark == "nyeon"
MonthMark == "wol"
DayMark == "il"

\* re.sub(r"[^\d./\-년월일]", " ", src), whitespace collapsed and stripped.
CleanDate(src) ==
    LET kept == Digits \cup DateSeps \cup {YearMark, MonthMark, DayMark}
        blanked == [i \in 1..Len(src) |-> IF src[i] \in kept THEN src[i] ELSE " "]
    IN  Strip(CollapseSpace(blanked))

\* (?<!\d)\d{n}(?!\d): where the first run of exactly n digits starts, or 0.
ExactRun(t, n) ==
    LET S == {i \in 1..Len(t) : RunStart(t, i) /\ RunLen(t, i) = n}
    IN  IF S = {} THEN 0 ELSE First(S)

\* (\d{lo,hi})\s*[-./]\s* at i: the digits from i are lo..hi many and a
\* separator follows them; the position after it, or 0.
NumSepAt(t, i, lo, hi) ==
    LET n == RunLen(t, i)
        j == SkipSpace(t, i + n)
    IN  IF n >= lo /\ n <= hi /\ At(t, j) \in DateSeps
        THEN SkipSpace(t, j + 1) ELSE 0

\* (\d{2,4})\s*[-./]\s*(\d{1,2})\s*[-./]\s*(\d{1,2}) at i: the three groups,
\* or <<>>.
YmdAt(t, i) ==
    LET k == NumSepAt(t, i, 2, 4)
        k2 == IF k = 0 THEN 0 ELSE NumSepAt(t, k, 1, 2)
    IN  IF k2 = 0 \/ ~IsDigit(At(t, k2)) THEN <<>>
        ELSE <<SubSeq(t, i, i + RunLen(t, i) - 1),
               SubSeq(t, k, k + RunLen(t, k) - 1),
               SubSeq(t, k2, k2 + Min(RunLen(t, k2), 2) - 1)>>

\* re.search of that pattern: the groups of the leftmost match, or <<>>.
YmdSearch(t) ==
    LET S == {i \in 1..Len(t) : YmdAt(t, i) # <<>>}
    IN  IF S = {} THEN <<>> ELSE YmdAt(t, First(S))

\* (\d{lo,hi})\s*mark: the group of the leftmost match, or None.
NumBeforeMark(t, lo, hi, mark) ==
    LET ok(i) == LET n == RunLen(t, i)
                 IN  n >= lo /\ n <= hi /\ At(t, SkipSpace(t, i + n)) = mark
        S == {i \in 1..Len(t) : ok(i)}
    IN  IF S = {} THEN None
        ELSE SubSeq(t, First(S), First(S) + RunLen(t, First(S)) - 1)

\* (?<!\d)(\d{1,2})\s*[-./]\s*(\d{1,2})(?!\d): the groups of the leftmost
\* match, or <<>>.
MdSearch(t) ==
    LET second(i) == NumSepAt(t, i, 1, 2)
        ok(i) == /\ RunStart(t, i)
                 /\ second(i) # 0
                 /\ RunLen(t, second(i)) \in {1, 2}
        S == {i \in 1..Len(t) : ok(i)}
    IN  IF S = {} THEN <<>>
        ELSE LET i == First(S)
                 k == second(i)
             IN  <<SubSeq(t, i, i + RunLen(t, i) - 1),
                   SubSeq(t, k, k + RunLen(t, k) - 1)>>

\* The last branch: the year, month and day read off the digit runs.
LooseYmd(nums) ==
    LET a == nums[1]
        b == nums[2]
    IN  IF Len(nums) >= 2
        THEN IF Len(a) = 4 /\ Len(b) \in {3, 4}
             THEN IF Len(b) = 3 THEN <<a, Upto(b, 1), From(b, 2)>>
                                ELSE <<a, Upto(b, 2), From(b, 3)>>
             ELSE IF Len(a) = 4 /\ Len(b) <= 2 THEN <<a, b, None>>
             ELSE IF Len(a) <= 2 /\ Len(b) \in {3, 4}
             THEN IF Len(b) = 3 THEN <<None, Upto(b, 1), From(b, 2)>>
                                ELSE <<None, Upto(b, 2), From(b, 3)>>
             ELSE IF Len(a) <= 2 /\ Len(b) <= 2 THEN <<None, a, b>>
             ELSE <<None, None, None>>
        ELSE IF Len(nums) = 1
        THEN IF Len(a) = 4 THEN <<None, Upto(a, 2), From(a, 3)>>
             ELSE IF Len(a) = 3 THEN <<None, Upto(a, 1), From(a, 2)>>
             ELSE <<None, a, None>>
        ELSE <<None, None, None>>

\* A variant that tries the separated year-month-day before the runs of
\* eight and six digits.
DateParts_SeparatedFirst(cleaned) ==
    LET r8 == ExactRun(cleaned, 8)
        r6 == ExactRun(cleaned, 6)
        ymd == YmdSearch(cleaned)
        yk == NumBeforeMark(cleaned, 2, 4, YearMark)
        mk == NumBeforeMark(cleaned, 1, 2, MonthMark)
        dk == NumBeforeMark(cleaned, 1, 2, DayMark)
        md == MdSearch(cleaned)
    IN  IF ymd # <<>> THEN ymd
        ELSE IF r8 # 0
        THEN <<SubSeq(cleaned, r8, r8 + 3), SubSeq(cleaned, r8 + 4, r8 + 5),
               SubSeq(cleaned, r8 + 6, r8 + 7)>>
        ELSE IF r6 # 0
        THEN <<<<"2", "0">> \o SubSeq(cleaned, r6, r6 + 1),
               SubSeq(cleaned, r6 + 2, r6 + 3), SubSeq(cleaned, r6 + 4, r6 + 5)>>
        ELSE IF yk # None \/ mk # None \/ dk # None THEN <<yk, mk, dk>>
        ELSE IF md # <<>> THEN <<None, md[1], md[2]>>
        ELSE LooseYmd(DigitRuns(cleaned))

\* The (Y, M, D) the patterns give, the first that matches in the order of
\* the code; None for a part not found.
DateParts(cleaned) ==
    LET r8 == ExactRun(cleaned, 8)
        r6 == ExactRun(cleaned, 6)
        ymd == YmdSearch(cleaned)
        yk == NumBeforeMark(cleaned, 2, 4, YearMark)
        mk == NumBeforeMark(cleaned, 1, 2, MonthMark)
        dk == NumBeforeMark(cleaned, 1, 2, DayMark)
        md == MdSearch(cleaned)
    IN  IF r8 # 0
        THEN <<SubSeq(cleaned, r8, r8 + 3), SubSeq(cleaned, r8 + 4, r8 + 5),
               SubSeq(cleaned, r8 + 6, r8 + 7)>>
        ELSE IF r6 # 0
        THEN <<<<"2", "0">> \o SubSeq(cleaned, r6, r6 + 1),
               SubSeq(cleaned, r6 + 2, r6 + 3), SubSeq(cleaned, r6 + 4, r6 + 5)>>
        ELSE IF ymd # <<>> THEN ymd
        ELSE IF yk # None \/ mk # None \/ dk # None THEN <<yk, mk, dk>>
        ELSE IF md # <<>> THEN <<None, md[1], md[2]>>
        ELSE LooseYmd(DigitRuns(cleaned))

\* norm_year
NormYear(v) ==
    IF v = None THEN ZeroPad(CurrentYear, 4)
    ELSE ZeroPad(ToInt(IF Len(v) = 2 THEN <<"2", "0">> \o v ELSE v), 4)

\* A variant of the month and day without the range test.
NormMd_AnyNumber(v, hi) ==
    IF v = None THEN <<"0", "0">> ELSE ZeroPad(ToInt(v), 2)

\* norm_md, then the range test: "00" outside 1..hi
NormMd(v, hi) ==
    IF v = None THEN <<"0", "0">>
    ELSE IF ToInt(v) < 1 \/ ToInt(v) > hi THEN <<"0", "0">>
    ELSE ZeroPad(ToInt(v), 2)

\* A variant of fmt_date_uniform that writes the day first and the year last.
FmtDateUniform_DayFirst(s) ==
    IF Strip(s) = <<>> THEN <<"0", "0", "/", "0", "0", "/">> \o ZeroPad(CurrentYear, 4)
    ELSE Only({NormMd(p[3], 31) \o <<"/">> \o NormMd(p[2], 12) \o <<"/">> \o NormYear(p[1]) :
                  p \in {DateParts(cleaned) : cleaned \in {CleanDate(s)}}})

FmtDateUniform(s) ==
    IF Strip(s) = <<>> THEN ZeroPad(CurrentYear, 4) \o <<"/", "0", "0", "/", "0", "0">>
    ELSE Only({NormYear(p[1]) \o <<"/">> \o NormMd(p[2], 12) \o <<"/">> \o NormMd(p[3], 31) :
                  p \in {DateParts(cleaned) : cleaned \in {CleanDate(s)}}})

(***************************************************************************)
(* extract_fine_amount_from_text                                           *)
(***************************************************************************)
\* "원", and the lowest and highest amount read as a fine.
Won == "won"
MinFine == 10000
MaxFine == 500000

\* f"{amt:,}원"
FormatWon(amt) == Only({Thousands(n) \o <<Won>> : n \in {amt}})

\* The digits of t (re.sub(r"[^\d]", "", t), n.replace(",", "")).
OnlyDigits(t) == SelectSeq(t, IsDigit)

\* The words of the lines the tiers look for.
PayKeys == << <<"nap", "bu", "geum", "aek">>, <<"nap", "gi", "nae", "geum", "aek">> >>
FineKey == <<"gwa", "tae", "ryo">>
ReducedKey == <<"gam", "gyeong">>
AddedKey == <<"ga", "san">>

\* line.find(key), 1-based; 0 when key is not in the line.
Find(line, key) ==
    LET S == {i \in 1..(Len(line) - Len(key) + 1) :
                 SubSeq(line, i, i + Len(key) - 1) = key}
    IN  IF S = {} THEN 0 ELSE First(S)

\* \d{2,4}\s*-\s*\d{3,6}\s*-\s*\d{1,4} at i: the last position of the match,
\* or 0.
HyphenCodeEnd(t, i) ==
    LET n1 == RunLen(t, i)
        j1 == SkipSpace(t, i + n1)
        k1 == SkipSpace(t, j1 + 1)
        n2 == RunLen(t, k1)
        j2 == SkipSpace(t, k1 + n2)
        k2 == SkipSpace(t, j2 + 1)
        n3 == RunLen(t, k2)
    IN  IF /\ n1 >= 2 /\ n1 <= 4 /\ At(t, j1) = "-"
           /\ n2 >= 3 /\ n2 <= 6 /\ At(t, j2) = "-"
           /\ n3 >= 1
        THEN k2 + Min(n3, 4) - 1
        ELSE 0

\* strip_hyphen_codes: each code replaced by a space, left to right.
RECURSIVE StripHyphenCodes(_)
StripHyphenCodes(t) ==
    IF t = <<>> THEN <<>>
    ELSE Only({IF e > 0 THEN <<" ">> \o StripHyphenCodes(From(t, e + 1))
               ELSE <<Head(t)>> \o StripHyphenCodes(Tail(t)) :
                  e \in {HyphenCodeEnd(t, 1)}})

\* The number of groups ",ddd" that start at i ((?:,\d{3})*).
RECURSIVE CommaGroups(_, _)
CommaGroups(t, i) ==
    IF At(t, i) = "," /\ RunLen(t, i + 1) >= 3 THEN 1 + CommaGroups(t, i + 4) ELSE 0

\* What must follow an amount: "원" after any whitespace, or no digit.
FollowedByWon(t, e) == At(t, SkipSpace(t, e + 1)) = Won
NotFollowedByDigit(t, e) == ~IsDigit(At(t, e + 1))

\* (?<!\d)(\d{1,3}(?:,\d{3})+|\d{4,}) at i, then what must follow: the last
\* position of the group, or 0.  The first alternative gives back its comma
\* groups one at a time until what follows is right.
AmountEnd(t, i, Follows(_, _)) ==
    LET n == RunLen(t, i)
        g == CommaGroups(t, i + n)
        K == {k \in 1..g : Follows(t, i + n - 1 + 4 * k)}
    IN  IF ~RunStart(t, i) THEN 0
        ELSE IF n <= 3
        THEN IF K = {} THEN 0 ELSE i + n - 1 + 4 * Last(K)
        ELSE IF Follows(t, i + n - 1) THEN i + n - 1 ELSE 0

\* int(m.group(1).replace(",", ""))
AmountVal(t, i, e) == ToInt(OnlyDigits(SubSeq(t, i, e)))

InRange(val) == MinFine <= val /\ val <= MaxFine

\* re.search of "amount + 원": the value of the leftmost match, or -1.
WonAmount(t) ==
    LET S == {i \in 1..Len(t) : AmountEnd(t, i, FollowedByWon) > 0}
    IN  IF S = {} THEN -1
        ELSE AmountVal(t, First(S), AmountEnd(t, First(S), FollowedByWon))

\* re.findall of the amounts from position i on: their values, in order.
RECURSIVE Amounts(_, _)
Amounts(t, i) ==
    IF i > Len(t) THEN <<>>
    ELSE Only({IF e > 0 THEN <<AmountVal(t, i, e)>> \o Amounts(t, e + 1)
               ELSE Amounts(t, i + 1) :
                  e \in {AmountEnd(t, i, NotFollowedByDigit)}})

\* The first value of vals within the range, or -1.
FirstInRange(vals) ==
    LET S == {k \in 1..Len(vals) : InRange(vals[k])}
    IN  IF S = {} THEN -1 ELSE vals[First(S)]

\* find_amount_after_keyword: the amount, or -1 for None.
FindAmountAfterKeyword(segment) ==
    Only({IF InRange(WonAmount(seg)) THEN WonAmount(seg)
          ELSE FirstInRange(Amounts(seg, 1)) :
             seg \in {StripHyphenCodes(segment)}})

\* line[start:] + (" " + lines[i + 1] if i + 1 < len(lines) else "")
AfterKey(lines, i, key) ==
    From(lines[i], Find(lines[i], key) + Len(key))
        \o (IF i < Len(lines) THEN <<" ">> \o lines[i + 1] ELSE <<>>)

\* The amounts the lines with the key give, in the order of the lines; qual
\* tells which lines with the key count.
KeyAmounts(lines, key, qual(_)) ==
    LET Found(amts) ==
            LET idxs == {i \in 1..Len(lines) : amts[i] # -1}
            IN  IF idxs = {} THEN -1 ELSE amts[First(idxs)]
    IN  Only({Found(amts) :
                 amts \in {[i \in 1..Len(lines) |->
                              IF Contains(lines[i], key) /\ qual(lines[i])
                              THEN FindAmountAfterKeyword(AfterKey(lines, i, key))
                              ELSE -1]}})

AnyLine(line) == TRUE
NotReducedNorAdded(line) == ~Contains(line, ReducedKey) /\ ~Contains(line, AddedKey)

ExtractFineAmountFromText(text) ==
    LET Tiers(lines, cleaned) ==
            << KeyAmounts(lines, PayKeys[1], AnyLine),
               KeyAmounts(lines, PayKeys[2], AnyLine),
               KeyAmounts(lines, FineKey, NotReducedNorAdded),
               Only({IF InRange(val) THEN val ELSE -1 : val \in {WonAmount(cleaned)}}),
               FirstInRange(Amounts(cleaned, 1)) >>
        Fine(tiers) ==
            LET hits == {k \in 1..Len(tiers) : tiers[k] # -1}
            IN  IF hits = {} THEN <<>> ELSE FormatWon(tiers[First(hits)])
    IN  IF text = <<>> THEN <<>>
        ELSE Only({Fine(tiers) :
                      tiers \in {Tiers(lines, cleaned) :
                                    lines \in {SplitLines(text)},
                                    cleaned \in {StripHyphenCodes(text)}}})

(***************************************************************************)
(* The keyword cascades of process_keyword_based_ocr                       *)
(***************************************************************************)
\* The keyword lists, in the order of the code.
VehicleKeywords ==
    <<<<"cha", "ryang", "beon", "ho">>, <<"cha", "ryang">>,
      <<"dae", "sang">>>>
PenaltyWords ==
    <<<<"won">>, <<"geum", "aek">>, <<"gwa", "tae", "ryo">>,
      <<"beom", "chik", "geum">>>>
ViolationDateKeywords ==
    <<<<"il", "si">>, <<"il", "ja">>, <<"wi", "ban", "il">>,
      <<"bal", "saeng", "il">>>>
DueDateKeywords ==
    <<<<"nap", "bu", "gi", "han">>, <<"nap", "gi">>, <<"gi", "han">>,
      <<"man", "ryo", "il">>>>
LocationKeywords ==
    <<<<"jang", "so">>, <<"wi", "chi">>, <<"wi", "ban", "jang", "so">>,
      <<"bal", "saeng", "jang", "so">>, <<"ji", "jeom">>,
      <<"c", "c", "t", "v">>, <<"i", "c">>, <<"ap">>, <<"bang", "hyang">>,
      <<"dwi">>, <<"ju", "byeon">>, <<"geun", "cheo">>, <<"dan", "ji">>,
      <<"eo", "rin", "yi", "bo", "ho", "gu", "yeok">>, <<"ro">>, <<"gil">>,
      <<"dae", "ro">>, <<"gyo", "cha", "ro">>>>
ViolationKeywords ==
    <<<<"ju", "jeong", "cha">>, <<"sok", "do">>, <<"sin", "ho">>,
      <<"eo", "rin", "yi", "bo", "ho">>, <<"jung", "ang", "seon">>,
      <<"kki", "eo", "deul", "gi">>, <<"hoeng", "dan", "bo", "do">>,
      <<"an", "jeon", "geo", "ri">>, <<"jin", "ro", "byeon", "gyeong">>,
      <<"tong", "haeng", "geum", "ji">>, <<"il", "si", "jeong", "ji">>>>
ContentKeywords ==
    <<<<"nae", "yong">>, <<"wi", "ban">>, <<"sa", "yu">>,
      <<"hang", "mok">>>>

\* The capital letters and their small ones (str.lower()).
Capitals == <<"A", "B", "C", "D", "E", "F", "G", "H", "I", "J", "K", "L", "M",
              "N", "O", "P", "Q", "R", "S", "T", "U", "V", "W", "X", "Y", "Z">>
Smalls == <<"a", "b", "c", "d", "e", "f", "g", "h", "i", "j", "k", "l", "m",
            "n", "o", "p", "q", "r", "s", "t", "u", "v", "w", "x", "y", "z">>
Lower(t) ==
    [i \in 1..Len(t) |->
        IF \E k \in 1..26 : Capitals[k] = t[i]
        THEN Smalls[CHOOSE k \in 1..26 : Capitals[k] = t[i]]
        ELSE t[i]]

\* any(k in line for k in keys)
HasAny(line, keys) == \E k \in 1..Len(keys) : Contains(line, keys[k])

\* re.search(r"(\d{4})(?!\d)", re.sub(r"\s+", "", text)): the last four digits
\* of the first run of four digits or more of the text without its
\* whitespace, or <<>>.
FourDigits(text) ==
    LET Found(t) ==
            LET S == {i \in 1..Len(t) : RunLen(t, i) = 4}
            IN  IF S = {} THEN <<>> ELSE SubSeq(t, First(S), First(S) + 3)
    IN  Only({Found(t) : t \in {RemoveWhitespace(text)}})

\* line + (" " + lines[i + 1] if i + 1 < len(lines) else "")
WithNext(lines, i) ==
    lines[i] \o (IF i < Len(lines) THEN <<" ">> \o lines[i + 1] ELSE <<>>)

\* for key in keys: for i, line in enumerate(lines): the first (key, line)
\* with the key in the line and ok(i); <<0, 0>> when there is none.
FirstHit(keys, lines, InLine(_, _), ok(_)) ==
    LET H == {h \in (1..Len(keys)) \X (1..Len(lines)) :
                 InLine(lines[h[2]], keys[h[1]]) /\ ok(h[2])}
    IN  IF H = {} THEN <<0, 0>>
        ELSE CHOOSE h \in H : \A g \in H :
                 h[1] < g[1] \/ (h[1] = g[1] /\ h[2] <= g[2])

\* extract_vehicle_number_from_text after its ROI step: roi_text is the text
\* of the plate region, "" when the template has none or its OCR failed.
VehicleNumberOf(text, roi_text) ==
    LET Tiers(lines, roi) ==
            LET A == {i \in 1..Len(lines) :
                         /\ HasAny(lines[i], VehicleKeywords)
                         /\ FourDigits(WithNext(lines, i)) # <<>>}
                B == {i \in 1..Len(lines) :
                         /\ ~HasAny(lines[i], PenaltyWords)
                         /\ FourDigits(lines[i]) # <<>>}
            IN  IF roi # <<>> THEN roi
                ELSE IF A # {} THEN FourDigits(WithNext(lines, First(A)))
                ELSE IF B # {} THEN FourDigits(lines[First(B)])
                ELSE FourDigits(text)
    IN  Only({Tiers(lines, roi) :
                 lines \in {IF text = <<>> THEN <<>> ELSE SplitLines(text)},
                 roi \in {FourDigits(roi_text)}})

\* extract_date_from_text
ExtractDateFromText(text, keywords) ==
    LET Seg(lines) ==
            Only({IF h # <<0, 0>> THEN WithNext(lines, h[2]) ELSE text :
                     h \in {FirstHit(keywords, lines, Contains, LAMBDA i : TRUE)}})
    IN  IF text = <<>> THEN FmtDateUniform(<<>>)
        ELSE Only({FmtDateUniform(seg) :
                      seg \in {Seg(lines) : lines \in {SplitLines(text)}}})

\* re.sub(r"^\s*[-\u2022]\s*", "", line.strip())
StripBullet(line) ==
    LET t == Strip(line)
    IN  IF At(t, 1) \in {"-", "bullet"} THEN From(t, SkipSpace(t, 2)) ELSE t

\* A variant of extract_location_from_text that gives the whole text when no
\* line has a keyword.
ExtractLocationFromText_ElseText(text) ==
    LET lines == SplitLines(text)
        h == FirstHit(LocationKeywords, lines,
                      LAMBDA line, key : Contains(Lower(line), key),
                      LAMBDA i : Len(StripBullet(lines[i])) > 3)
    IN  IF h # <<0, 0>> THEN StripBullet(lines[h[2]]) ELSE Strip(text)

\* extract_location_from_text
ExtractLocationFromText(text) ==
    LET lines == SplitLines(text)
        h == FirstHit(LocationKeywords, lines,
                      LAMBDA line, key : Contains(Lower(line), key),
                      LAMBDA i : Len(StripBullet(lines[i])) > 3)
    IN  IF h # <<0, 0>> THEN StripBullet(lines[h[2]]) ELSE <<>>

\* extract_violation_content_from_text
ExtractViolationContentFromText(text) ==
    LET lines == SplitLines(text)
        v == FirstHit(ViolationKeywords, lines, Contains,
                      LAMBDA i : Len(Strip(lines[i])) > 2)
        c == FirstHit(ContentKeywords, lines, Contains,
                      LAMBDA i : i < Len(lines) /\ Len(Strip(lines[i + 1])) > 2)
    IN  IF v # <<0, 0>> THEN Strip(lines[v[2]])
        ELSE IF c # <<0, 0>> THEN Strip(lines[c[2] + 1])
        ELSE <<>>

(***************************************************************************)
(* post_process_text                                                       *)
(***************************************************************************)
\* \d{2,3} [가-힣] \d{4} at i, with any whitespace around the syllable when
\* spaced: the last position of the match, or 0.
PlateEnd(t, i, spaced) ==
    LET at(d) == LET h == IF spaced THEN SkipSpace(t, i + d) ELSE i + d
                     k == IF spaced THEN SkipSpace(t, h + 1) ELSE h + 1
                 IN  IF /\ RunLen(t, i) >= d
                        /\ At(t, h) \in Hangul
                        /\ RunLen(t, k) >= 4
                     THEN k + 3 ELSE 0
    IN  IF at(3) > 0 THEN at(3) ELSE at(2)

\* re.search of the plate pattern: the leftmost match, or <<>>.
PlateSearch(t, spaced) ==
    LET S == {i \in 1..Len(t) : PlateEnd(t, i, spaced) > 0}
    IN  IF S = {} THEN <<>> ELSE SubSeq(t, First(S), PlateEnd(t, First(S), spaced))

\* re.findall(r"[\d,]+", t)
RECURSIVE NumberWords(_)
NumberWords(t) ==
    LET in(c) == IsDigit(c) \/ c = ","
        n == First({k \in 0..Len(t) : ~in(At(t, k + 1))})
    IN  IF t = <<>> THEN <<>>
        ELSE IF in(Head(t)) THEN <<Upto(t, n)>> \o NumberWords(From(t, n + 1))
        ELSE NumberWords(Tail(t))

\* The fine of a region: the first number of the words within the range
\* (a word of commas only is no number), or the text as it is.
PostProcessFine(text) ==
    LET words == NumberWords(text)
        S == {k \in 1..Len(words) :
                 OnlyDigits(words[k]) # <<>> /\ InRange(ToInt(OnlyDigits(words[k])))}
    IN  IF S = {} THEN text
        ELSE FormatWon(ToInt(OnlyDigits(words[First(S)])))

\* The plate of a region.
PostProcessPlate(text) ==
    IF PlateSearch(text, FALSE) # <<>> THEN PlateSearch(text, FALSE)
    ELSE IF PlateSearch(text, TRUE) # <<>>
    THEN RemoveWhitespace(PlateSearch(text, TRUE))
    ELSE text

(***************************************************************************)
(* The pages of a batch.  A page is what the OCR provider reads on it: the *)
(* text of the whole image and the text of the crop of each field.         *)
(***************************************************************************)
AllFields == {FieldNames[i] : i \in 1..Len(FieldNames)}

RegionTexts ==
    [f \in AllFields |->
        CASE f = "PlateNumber" -> <<"1", "2", "ga", " ", "3", "4", "5", "6">>
          [] f = "Date"        -> <<"2", "0", "2", "4", ".", "3", ".", "5">>
          [] f = "Fine"        -> <<"5", "0", ",", "0", "0", "0", "won">>
          [] OTHER             -> <<>>]

\* A police notice, the marker verbatim.
PagePolice ==
    [text |-> Marker \o <<"\n", "1", "2", "ga", "3", "4", "5", "6">>,
     region |-> RegionTexts]

\* A police notice, the marker split by the OCR; its plate is of no vehicle
\* of the roster.
PagePoliceSplit ==
    [text |-> <<" ", "gyeong", "chal", " ", "cheong", "\n", "go", "ji", "\n">>,
     region |-> [RegionTexts EXCEPT
                    !["PlateNumber"] = <<"3", "4", "da", " ", "7", "7", "7", "7">>]]

\* Any other notice.
PageGeneric ==
    [text |-> <<"go", "ji", "seo", "\n", "9", "9", "na", "3", "4", "5", "6">>,
     region |-> RegionTexts]

Pages == {PagePolice, PagePoliceSplit, PageGeneric}

\* uploaded_image_names[k - 1]
FileName(k) == <<"file", k>>

\* A stored template, and none.
TemplateSample ==
    [f \in {"PlateNumber", "Date", "Fine"} |->
        CASE f = "PlateNumber" -> <<50, 50, 200, 100>>
          [] f = "Date"        -> <<50, 100, 200, 150>>
          [] OTHER             -> <<50, 150, 200, 200>>]

Templates == {EmptyDict, TemplateSample}

\* dict.get(key, "")
Get(d, k) == IF k \in DOMAIN d THEN d[k] ELSE <<>>

(***************************************************************************)
(* The functions process_all_images calls.                                 *)
(***************************************************************************)
\* perform_full_image_ocr: the provider's text stripped, "" when it fails.
PerformFullImageOcr(img, ok) == IF ok THEN Strip(img.text) ELSE <<>>

\* A variant of classify_image_type that looks for the verbatim marker only.
ClassifyImageType_Verbatim(full_text) ==
    IF full_text = <<>> THEN FALSE
    ELSE Contains(full_text, Marker)

\* classify_image_type
ClassifyImageType(full_text) ==
    IF full_text = <<>> THEN FALSE
    ELSE \/ Contains(full_text, Marker)
         \/ Contains(RemoveWhitespace(full_text), MarkerJoined)

\* post_process_text
PostProcessText(field, raw_text) ==
    LET text == Strip(CollapseSpace(raw_text))
    IN  IF raw_text = <<>> THEN <<>>
        ELSE IF field = "PlateNumber" THEN PostProcessPlate(text)
        ELSE IF field \in {"Date", "DueDate"} THEN FmtDateUniform(text)
        ELSE IF field = "Fine" THEN PostProcessFine(text)
        ELSE text

\* extract_text_from_region: the crop's text post-processed, "" on any error.
ExtractTextFromRegion(img, field, ok) ==
    IF ok THEN PostProcessText(field, Strip(img.region[field])) ELSE <<>>

\* A variant of process_template_based_ocr with one try around the loop: a
\* failing field leaves every field empty.
ProcessTemplateBasedOcr_OneTry(img, bad) ==
    [f \in DOMAIN coordinates |->
        IF bad # {} THEN <<>> ELSE ExtractTextFromRegion(img, f, TRUE)]

\* process_template_based_ocr; bad holds the fields whose OCR call fails.
ProcessTemplateBasedOcr(img, bad) ==
    [f \in DOMAIN coordinates |-> ExtractTextFromRegion(img, f, f \notin bad)]

\* The first step of extract_vehicle_number_from_text: the text of the plate
\* region of the current page when the template has one, else "".
RoiText(img, bad) ==
    IF "PlateNumber" \in DOMAIN coordinates
    THEN ExtractTextFromRegion(img, "PlateNumber", "PlateNumber" \notin bad)
    ELSE <<>>

\* extract_vehicle_number_from_text
ExtractVehicleNumberFromText(text, img, bad) ==
    VehicleNumberOf(text, RoiText(img, bad))

\* A variant of process_keyword_based_ocr that reads all six fields from the
\* text and never looks at the plate region.
ProcessKeywordBasedOcr_TextOnly(full_text, img, bad) ==
    [f \in AllFields |->
        CASE f = "PlateNumber" -> VehicleNumberOf(full_text, <<>>)
          [] f = "Date"        -> ExtractDateFromText(full_text, ViolationDateKeywords)
          [] f = "Location"    -> ExtractLocationFromText(full_text)
          [] f = "Fine"        -> ExtractFineAmountFromText(full_text)
          [] f = "DueDate"     -> ExtractDateFromText(full_text, DueDateKeywords)
          [] OTHER             -> ExtractViolationContentFromText(full_text)]

\* process_keyword_based_ocr
ProcessKeywordBasedOcr(full_text, img, bad) ==
    [f \in AllFields |->
        CASE f = "PlateNumber" -> ExtractVehicleNumberFromText(full_text, img, bad)
          [] f = "Date"        -> ExtractDateFromText(full_text, ViolationDateKeywords)
          [] f = "Location"    -> ExtractLocationFromText(full_text)
          [] f = "Fine"        -> ExtractFineAmountFromText(full_text)
          [] f = "DueDate"     -> ExtractDateFromText(full_text, DueDateKeywords)
          [] OTHER             -> ExtractViolationContentFromText(full_text)]

\* A row of the roster vehicle_users_df: its plate, name and department
\* columns.  The roster is the sequence of its rows, or None.
Row(plate, name, department) == <<plate, name, department>>
RowPlate(row) == row[1]
RowName(row) == row[2]
RowDepartment(row) == row[3]

\* digits[-1][-4:] of re.findall(r"\d+", t): the last four digits, or fewer,
\* of the last run of digits of t; <<>> when t has no digit.
Last4(t) ==
    LET runs == DigitRuns(t)
        r == runs[Len(runs)]
    IN  IF runs = <<>> THEN <<>>
        ELSE IF Len(r) <= 4 THEN r ELSE SubSeq(r, Len(r) - 3, Len(r))

\* The length of the block a[i..] = b[j..] within a[..ahi] and b[..bhi].
RECURSIVE BlockLen(_, _, _, _, _, _)
BlockLen(a, b, i, j, ahi, bhi) ==
    IF i <= ahi /\ j <= bhi /\ a[i] = b[j]
    THEN 1 + BlockLen(a, b, i + 1, j + 1, ahi, bhi)
    ELSE 0

\* The matches of SequenceMatcher(None, a, b) within a[alo..ahi] and
\* b[blo..bhi]: the longest block, the earliest in a and then in b, and the
\* matches on its left and on its right.
RECURSIVE Matches(_, _, _, _, _, _)
Matches(a, b, alo, ahi, blo, bhi) ==
    LET P == (alo..ahi) \X (blo..bhi)
        k == Last({BlockLen(a, b, p[1], p[2], ahi, bhi) : p \in P} \cup {0})
        B == {p \in P : BlockLen(a, b, p[1], p[2], ahi, bhi) = k}
        m == CHOOSE p \in B : \A q \in B :
                 p[1] < q[1] \/ (p[1] = q[1] /\ p[2] <= q[2])
    IN  IF k = 0 THEN 0
        ELSE k + Matches(a, b, alo, m[1] - 1, blo, m[2] - 1)
               + Matches(a, b, m[1] + k, ahi, m[2] + k, bhi)

\* SequenceMatcher(None, a, b).ratio() as the fraction <<2 * M, T>>, M the
\* matches and T the two lengths together; 1.0 for two empty texts.
Ratio(a, b) ==
    IF Len(a) + Len(b) = 0 THEN <<1, 1>>
    ELSE <<2 * Matches(a, b, 1, Len(a), 1, Len(b)), Len(a) + Len(b)>>

\* x > y for two fractions.
Greater(x, y) == x[1] * y[2] > y[1] * x[2]

\* A variant of the test on a row's digits that compares the last digit only.
SameLast4_LastDigit(vehicle_num, last4) ==
    /\ DigitRuns(vehicle_num) # <<>>
    /\ At(Last4(vehicle_num), Len(Last4(vehicle_num))) = At(last4, Len(last4))

\* if not vd: continue ... if v_last4 == last4
SameLast4(vehicle_num, last4) ==
    /\ DigitRuns(vehicle_num) # <<>>
    /\ Last4(vehicle_num) = last4

\* A variant of the test on the score that lets an equal score replace best.
IsBetter_OrEqual(sim, best_score) == ~Greater(best_score, sim)

\* if sim > best_score
IsBetter(sim, best_score) == Greater(sim, best_score)

\* The loop of match_vehicle_number over the first n rows: the index of best
\* after them, 0 for None; best_score is 0 until a row is taken.
RECURSIVE BestRow(_, _, _)
BestRow(ocr_vehicle_number, rows, n) ==
    LET best == BestRow(ocr_vehicle_number, rows, n - 1)
        best_score == IF best = 0 THEN <<0, 1>>
                      ELSE Ratio(ocr_vehicle_number, RowPlate(rows[best]))
        vehicle_num == RowPlate(rows[n])
    IN  IF n = 0 THEN 0
        ELSE IF /\ SameLast4(vehicle_num, Last4(ocr_vehicle_number))
                /\ IsBetter(Ratio(ocr_vehicle_number, vehicle_num), best_score)
             THEN n
             ELSE best

\* match_vehicle_number: the best row of the roster, or None.
MatchVehicleNumber(ocr_vehicle_number) ==
    LET best == BestRow(ocr_vehicle_number, vehicle_users_df, Len(vehicle_users_df))
    IN  IF ocr_vehicle_number = <<>> \/ vehicle_users_df = None THEN None
        ELSE IF Len(Last4(ocr_vehicle_number)) # 4 THEN None
        ELSE IF best = 0 THEN None
        ELSE vehicle_users_df[best]

\* int(fine_amount * 0.8)
Discount(fine_amount) == (fine_amount \div 10) * 8 + ((fine_amount % 10) * 8) \div 10

\* The reduced amount of compile_final_results: 0 for an empty fine, "" when
\* int() raises on a fine without digits.
Discounted(fine_text) ==
    IF fine_text = <<>> THEN FormatWon(Discount(0))
    ELSE IF OnlyDigits(fine_text) = <<>> THEN <<>>
    ELSE FormatWon(Discount(ToInt(OnlyDigits(fine_text))))

\* What compile_final_results writes when no row matched ("매칭 실패").
Unmatched == <<"unmatched">>

\* A variant of compile_final_results that leaves the plate of an unmatched
\* page empty.
CompileFinalResults_NoPlate(matched_vehicle, ocr) ==
    [Department |-> IF matched_vehicle # None
                    THEN RowDepartment(matched_vehicle) ELSE Unmatched,
     User       |-> IF matched_vehicle # None
                    THEN RowName(matched_vehicle) ELSE Unmatched,
     Plate      |-> IF matched_vehicle # None
                    THEN RowPlate(matched_vehicle) ELSE <<>>,
     Date       |-> FmtDateUniform(Get(ocr, "Date")),
     Location   |-> Get(ocr, "Location"),
     Content    |-> Get(ocr, "Description"),
     Fine       |-> Get(ocr, "Fine"),
     DueDate    |-> FmtDateUniform(Get(ocr, "DueDate")),
     Discounted |-> Discounted(Get(ocr, "Fine"))]

\* compile_final_results over the ocr_results the page has just stored.
CompileFinalResults(matched_vehicle, ocr) ==
    [Department |-> IF matched_vehicle # None
                    THEN RowDepartment(matched_vehicle) ELSE Unmatched,
     User       |-> IF matched_vehicle # None
                    THEN RowName(matched_vehicle) ELSE Unmatched,
     Plate      |-> IF matched_vehicle # None
                    THEN RowPlate(matched_vehicle) ELSE Get(ocr, "PlateNumber"),
     Date       |-> FmtDateUniform(Get(ocr, "Date")),
     Location   |-> Get(ocr, "Location"),
     Content    |-> Get(ocr, "Description"),
     Fine       |-> Get(ocr, "Fine"),
     DueDate    |-> FmtDateUniform(Get(ocr, "DueDate")),
     Discounted |-> Discounted(Get(ocr, "Fine"))]

\* A variant of the record that counts the pages from zero.
FinalResult_FromZero(k, is_police, ocr) ==
    [result         |-> CompileFinalResults(MatchVehicleNumber(Get(ocr, "PlateNumber")), ocr),
     FileName       |-> FileName(k),
     Index          |-> k - 1,
     Classification |-> IF is_police THEN "police" ELSE "generic"]

\* The record process_all_images appends for page k.
FinalResult(k, is_police, ocr) ==
    [result         |-> CompileFinalResults(MatchVehicleNumber(Get(ocr, "PlateNumber")), ocr),
     FileName       |-> FileName(k),
     Index          |-> k,
     Classification |-> IF is_police THEN "police" ELSE "generic"]

RECURSIVE SortedByIndex(_)
\* results_section: the records sorted by _index.
SortedByIndex(rs) ==
    IF rs = <<>> THEN <<>>
    ELSE LET m == CHOOSE i \in 1..Len(rs) :
                      \A j \in 1..Len(rs) : rs[i].Index <= rs[j].Index
                                              /\ (rs[i].Index = rs[j].Index => i <= j)
         IN  <<rs[m]>> \o SortedByIndex(SubSeq(rs, 1, m - 1) \o SubSeq(rs, m + 1, Len(rs)))

(***************************************************************************)
(* process_all_images, one loop iteration a step.                          *)
(***************************************************************************)
\* A roster the first step loaded: two vehicles that end in 3456 and one that
\* does not.
RosterSample ==
    <<Row(<<"9", "9", "na", "3", "4", "5", "6">>, <<"A">>, <<"D", "1">>),
      Row(<<"1", "2", "ga", "3", "4", "5", "6">>, <<"B">>, <<"D", "2">>),
      Row(<<"3", "4", "da", "7", "7", "5", "6">>, <<"C">>, <<"D", "1">>)>>

\* The batch starts in the OCR step with the pages uploaded and a template
\* stored or not.
InitBatch ==
    /\ current_step = "ocr_process"
    /\ coordinates \in Templates
    /\ current_field_index = 0
    /\ temp_coords = <<>>
    /\ click_step = 0
    /\ last_click_sig = None
    /\ lastOp = Op("init", <<>>)
    /\ skipped = {}
    /\ cleared = FALSE
    /\ \E n \in 1..MaxPages : uploaded_images \in [1..n -> Pages]
    /\ uploaded_image = uploaded_images[1]
    /\ full_ocr_text = <<>>
    /\ is_police_notice = FALSE
    /\ ocr_results = EmptyDict
    /\ batch_results = <<>>
    /\ all_results = <<>>
    /\ idx = 0
    /\ pc = "idle"
    /\ messages = {}
    /\ failed = {}
    /\ vehicle_users_df = None \/ vehicle_users_df = RosterSample
    /\ arg = <<>>
    /\ ret = <<>>

\* ocr_process_section: the start button, shown while batch_results is empty.
StartBatch ==
    /\ current_step = "ocr_process"
    /\ pc \in {"idle", "returned"}
    /\ batch_results = <<>>
    /\ uploaded_images # <<>>
    /\ all_results' = <<>>
    /\ idx' = 1
    /\ pc' = "loop"
    /\ messages' = {}
    /\ UNCHANGED <<wvars, fvars, coordinates, uploaded_images, uploaded_image,
                   full_ocr_text, is_police_notice, ocr_results, batch_results,
                   failed>>

\* The same button when the Vision client cannot be made: st.error, return.
StartBatchNoClient ==
    /\ current_step = "ocr_process"
    /\ pc \in {"idle", "returned"}
    /\ batch_results = <<>>
    /\ uploaded_images # <<>>
    /\ pc' = "returned"
    /\ messages' = {"no client"}
    /\ UNCHANGED <<wvars, fvars, coordinates, uploaded_images, uploaded_image,
                   full_ocr_text, is_police_notice, ocr_results, batch_results,
                   all_results, idx, failed>>

\* The head of an iteration: the page's text and its classification.
PageHead(img, full_text) ==
    /\ pc = "loop"
    /\ idx <= Len(uploaded_images)
    /\ img = uploaded_images[idx]
    /\ uploaded_image' = img
    /\ full_ocr_text' = full_text
    /\ is_police_notice' = ClassifyImageType(full_text)

\* A variant of the tail that compiles the record from the results the
\* session held before the page stored its own.
PageTail_Stale(is_police, ocr) ==
    /\ ocr_results' = ocr
    /\ all_results' = Append(all_results, FinalResult(idx, is_police, ocr_results))
    /\ idx' = idx + 1
    /\ UNCHANGED <<wvars, fvars, coordinates, uploaded_images, batch_results, pc, messages>>

\* The tail of an iteration: the results stored, the record appended.
PageTail(is_police, ocr) ==
    /\ ocr_results' = ocr
    /\ all_results' = Append(all_results, FinalResult(idx, is_police, ocr))
    /\ idx' = idx + 1
    /\ UNCHANGED <<wvars, fvars, coordinates, uploaded_images, batch_results, pc, messages>>

\* A police notice with a template: the regions are read.
ProcessPageTemplate(full_ok, bad) ==
    LET img == uploaded_images[idx]
        full_text == PerformFullImageOcr(img, full_ok)
    IN  /\ PageHead(img, full_text)
        /\ ClassifyImageType(full_text)
        /\ coordinates # EmptyDict
        /\ bad \subseteq DOMAIN coordinates
        /\ failed' = bad
        /\ PageTail(TRUE, ProcessTemplateBasedOcr(img, bad))

\* A police notice and no template: st.error, and the handler returns.
ReturnNoTemplate(full_ok) ==
    LET img == uploaded_images[idx]
        full_text == PerformFullImageOcr(img, full_ok)
    IN  /\ PageHead(img, full_text)
        /\ ClassifyImageType(full_text)
        /\ coordinates = EmptyDict
        /\ messages' = messages \cup {"no template"}
        /\ pc' = "returned"
        /\ UNCHANGED <<wvars, fvars, coordinates, uploaded_images, ocr_results,
                       batch_results, all_results, idx, failed>>

\* Any other page: the keyword cascades.
ProcessPageKeyword(full_ok, bad) ==
    LET img == uploaded_images[idx]
        full_text == PerformFullImageOcr(img, full_ok)
    IN  /\ PageHead(img, full_text)
        /\ ~ClassifyImageType(full_text)
        /\ bad \subseteq DOMAIN coordinates
        /\ failed' = bad
        /\ PageTail(FALSE, ProcessKeywordBasedOcr(full_text, img, bad))

\* After the last page: the results are stored in the session.
FinishBatch ==
    /\ pc = "loop"
    /\ idx > Len(uploaded_images)
    /\ batch_results' = all_results
    /\ pc' = "done"
    /\ UNCHANGED <<wvars, fvars, coordinates, uploaded_images, uploaded_image,
                   full_ocr_text, is_police_notice, ocr_results, all_results,
                   idx, messages, failed>>

NextBatch ==
    \/ StartBatch
    \/ StartBatchNoClient
    \/ \E full_ok \in BOOLEAN, bad \in SUBSET AllFields :
          ProcessPageTemplate(full_ok, bad)
    \/ \E full_ok \in BOOLEAN : ReturnNoTemplate(full_ok)
    \/ \E full_ok \in BOOLEAN, bad \in SUBSET {"PlateNumber"} :
          ProcessPageKeyword(full_ok, bad)
    \/ FinishBatch

SpecBatch == InitBatch /\ [][NextBatch]_vars

(***************************************************************************)
(* The text functions, each called on its own: arg is the argument of the  *)
(* call, ret what it returns.                                              *)
(***************************************************************************)
\* Everything but pc, arg and ret.
cvars == <<wvars, coordinates, uploaded_images, uploaded_image, full_ocr_text,
           is_police_notice, ocr_results, batch_results, all_results, idx,
           messages, failed, vehicle_users_df>>

\* The session as init_session_state leaves it, a call about to be made.
BeforeCall ==
    /\ current_step = "upload_files"
    /\ coordinates = EmptyDict
    /\ current_field_index = 0
    /\ temp_coords = <<>>
    /\ click_step = 0
    /\ last_click_sig = None
    /\ lastOp = Op("init", <<>>)
    /\ skipped = {}
    /\ cleared = FALSE
    /\ uploaded_images = <<>>
    /\ uploaded_image = None
    /\ full_ocr_text = <<>>
    /\ is_police_notice = FALSE
    /\ ocr_results = EmptyDict
    /\ batch_results = <<>>
    /\ all_results = <<>>
    /\ idx = 0
    /\ messages = {}
    /\ failed = {}
    /\ pc = "call"
    /\ ret = None

\* The whitespace of at most n characters the OCR may put in a phrase.
RECURSIVE GapsUpTo(_)
GapsUpTo(n) ==
    IF n = 0 THEN {<<>>}
    ELSE GapsUpTo(n - 1) \cup {g \o <<c>> : g \in GapsUpTo(n - 1), c \in {" ", "\n"}}

\* The syllables of ph with the gaps g between them.
RECURSIVE Spread(_, _)
Spread(ph, g) ==
    IF Len(ph) <= 1 THEN ph
    ELSE <<Head(ph)>> \o Head(g) \o Spread(Tail(ph), Tail(g))

\* Page texts for the classifier: the marker and a phrase one syllable off,
\* spaced in every way, alone or inside other text; and the empty texts.
ClassifyInputs ==
    {<<>>, <<" ">>, <<"\n">>, <<"go", "ji">>} \cup
    {pre \o Spread(ph, g) \o post :
        pre \in {<<>>, <<"go", "ji", "seo", " ">>},
        ph \in {MarkerJoined, <<"gyeong", "chal", "seo", "go", "ji">>},
        g \in [1..4 -> GapsUpTo(MaxGap)],
        post \in {<<>>, <<"\n", "1", "2", "ga", "3", "4", "5", "6">>}}

InitClassify ==
    /\ BeforeCall
    /\ vehicle_users_df = None
    /\ arg \in ClassifyInputs

\* is_police = classify_image_type(full_text)
CallClassifyImageType ==
    /\ pc = "call"
    /\ ret' = ClassifyImageType(arg)
    /\ pc' = "return"
    /\ UNCHANGED <<cvars, arg>>

SpecClassify == InitClassify /\ [][CallClassifyImageType]_vars

\* The texts of at most n pieces.
RECURSIVE PiecesUpTo(_, _)
PiecesUpTo(pieces, n) ==
    IF n = 0 THEN {<<>>}
    ELSE PiecesUpTo(pieces, n - 1) \cup
         {t \o q : t \in PiecesUpTo(pieces, n - 1), q \in pieces}

\* The pieces of a written date: a number and the separator, unit marker
\* or nothing after it.
DatePieces ==
    {n \o m :
        n \in {<<"5">>, <<"1", "3">>, <<"2", "4">>, <<"3", "0", "5">>,
               <<"2", "0", "2", "4">>, <<"2", "4", "0", "3", "0", "5">>,
               <<"2", "0", "2", "4", "0", "3", "0", "5">>},
        m \in {<<>>, <<".">>, <<"-">>, <<" ">>, <<"nyeon">>, <<"wol">>, <<"il">>}}

\* The dates the specification names, and others as long.
DateExamples ==
    {<<"2", "0", "2", "4", ".", "3", ".", "5">>,
     <<"2", "4", "-", "3", "-", "5">>,
     <<"2", "0", "2", "4", "0", "3", "0", "5">>,
     <<"2", "4", "0", "3", "0", "5">>,
     <<"0", "3", "-", "0", "5">>,
     <<>>,
     <<" ">>,
     <<"wi", "ban", "il", "si", " ", "2", "0", "2", "4", "nyeon", " ", "3", "wol", " ", "5", "il">>,
     <<"2", "0", "2", "4", "/", "1", "3", "/", "4", "0">>,
     <<"2", "0", "2", "4", ".", "3", ".", "5", " ", "2", "0", "2", "3", "1", "2", "3", "1">>,
     <<"0", "3", "-", "0", "5", " ", "2", "4", "1", "2", "3", "1">>,
     <<"3", "wol", " ", "2", "0", "2", "4", ".", "1", ".", "2">>,
     <<"0", "3", "-", "0", "5", " ", "7", "il">>,
     <<"1", "2", "3", " ", "0", "3", "-", "0", "5">>}

DateInputs == DateExamples \cup PiecesUpTo(DatePieces, MaxPieces)

InitDate ==
    /\ BeforeCall
    /\ vehicle_users_df = None
    /\ arg \in DateInputs

\* fmt_date_uniform(s)
CallFmtDateUniform ==
    /\ pc = "call"
    /\ ret' = FmtDateUniform(arg)
    /\ pc' = "return"
    /\ UNCHANGED <<cvars, arg>>

SpecDate == InitDate /\ [][CallFmtDateUniform]_vars

\* The pieces of a text with amounts: numbers in and out of the range of a
\* fine, a reference code, the currency suffix, the amount keywords and
\* whitespace.
FinePieces ==
    {<<"5", "0", ",", "0", "0", "0">>, <<"5", ",", "0", "0", "0">>, <<"6", "0", "0", ",", "0", "0", "0">>, <<"4", "0", "0", "0", "0">>,
     <<"9", "9", "9", "9">>, <<"2", "0", "2", "5", "-", "0", "6", "3", "8", "2", "2", "-", "0", "0">>,
     <<"won">>, <<" ">>, <<"\n">>, <<"gwa", "tae", "ryo">>,
     <<"nap", "bu", "geum", "aek">>, <<"gam", "gyeong">>, <<"ga", "san">>}

\* Texts with amounts: up to MaxPieces pieces, and notices' lines.
FineInputs ==
    PiecesUpTo(FinePieces, MaxPieces) \cup
    {<<"gwa", "tae", "ryo", " ", "5", "0", ",", "0", "0", "0", "won", " ", "(", "gam", "gyeong", " ", "4", "0", ",", "0", "0", "0", "won", ")">>,
     <<"nap", "gi", "nae", "geum", "aek", " ", "3", "2", ",", "0", "0", "0", "won", "\n", "ga", "san", " ", "6", "0", "0", ",", "0", "0", "0", "won">>,
     <<"2", "0", "2", "5", "-", "0", "6", "3", "8", "2", "2", "-", "0", "0", "\n", "gwa", "tae", "ryo", " ", "5", ",", "0", "0", "0", "won">>,
     <<"go", "ji", "beon", "ho", " ", "2", "0", "2", "5", "-", "0", "6", "3", "8", "2", "2", "-", "0", "0">>}

InitFine ==
    /\ BeforeCall
    /\ vehicle_users_df = None
    /\ arg \in FineInputs

\* "Fine": extract_fine_amount_from_text(full_text)
CallExtractFineAmountFromText ==
    /\ pc = "call"
    /\ ret' = ExtractFineAmountFromText(arg)
    /\ pc' = "return"
    /\ UNCHANGED <<cvars, arg>>

\* return post_process_text(field, raw) for the Fine region
CallPostProcessFine ==
    /\ pc = "call"
    /\ ret' = PostProcessText("Fine", arg)
    /\ pc' = "return"
    /\ UNCHANGED <<cvars, arg>>

NextFine ==
    \/ CallExtractFineAmountFromText
    \/ CallPostProcessFine

SpecFine == InitFine /\ [][NextFine]_vars

\* Pages with the same regions but for the plate's: another plate, and a
\* plate region without four digits.
PageOtherPlate ==
    [text |-> PageGeneric.text,
     region |-> [RegionTexts EXCEPT !["PlateNumber"] = <<"3", "4", "da", " ", "7", "7", "7", "7">>]]

PageNoPlate ==
    [text |-> PageGeneric.text,
     region |-> [RegionTexts EXCEPT !["PlateNumber"] = <<"1", "2", "ga">>]]

KeywordPages == {PageGeneric, PageOtherPlate, PageNoPlate}

\* The pieces of a notice's text: words the cascades look for, a word they
\* do not, a plate, a date, an amount, and the line break.
KeywordPieces ==
    {<<"cha", "ryang", "beon", "ho">>, <<"il", "si">>,
     <<"nap", "bu", "gi", "han">>, <<"wi", "ban", "jang", "so">>,
     <<"go", "ji">>, <<"1", "2", "ga", "3", "4", "5", "6">>,
     <<"2", "0", "2", "4", ".", "3", ".", "5">>, <<"5", "0", ",", "0", "0", "0", "won">>,
     <<"\n">>}

\* Page texts of up to MaxPieces pieces.
KeywordInputs == PiecesUpTo(KeywordPieces, MaxPieces)

\* A Generic page of a batch about to be read: its image, the stored
\* template, and arg the text perform_full_image_ocr gave.
InitKeyword ==
    /\ current_step = "ocr_process"
    /\ coordinates \in Templates
    /\ current_field_index = 0
    /\ temp_coords = <<>>
    /\ click_step = 0
    /\ last_click_sig = None
    /\ lastOp = Op("init", <<>>)
    /\ skipped = {}
    /\ cleared = FALSE
    /\ uploaded_image \in KeywordPages
    /\ uploaded_images = <<uploaded_image>>
    /\ full_ocr_text = <<>>
    /\ is_police_notice = FALSE
    /\ ocr_results = EmptyDict
    /\ batch_results = <<>>
    /\ all_results = <<>>
    /\ idx = 1
    /\ messages = {}
    /\ failed = {}
    /\ vehicle_users_df = None
    /\ pc = "call"
    /\ arg \in KeywordInputs
    /\ ret = None

\* ocr_results = process_keyword_based_ocr(full_text), stored in the session;
\* bad holds the fields whose OCR call fails.
CallProcessKeywordBasedOcr(bad) ==
    /\ pc = "call"
    /\ bad \subseteq DOMAIN coordinates
    /\ failed' = bad
    /\ ocr_results' = ProcessKeywordBasedOcr(arg, uploaded_image, bad)
    /\ pc' = "return"
    /\ UNCHANGED <<wvars, fvars, coordinates, uploaded_images, uploaded_image,
                   full_ocr_text, is_police_notice, batch_results, all_results,
                   idx, messages>>

SpecKeyword ==
    InitKeyword /\
    [][\E bad \in SUBSET {"PlateNumber"} : CallProcessKeywordBasedOcr(bad)]_vars

\* The plates of the rosters: three that end in 3456, one that shares only
\* the last digits, one with three digits.
RosterPlates ==
    {<<"1", "2", "ga", "3", "4", "5", "6">>, <<"9", "9", "na", "3", "4", "5", "6">>,
     <<"3", "4", "5", "6">>, <<"3", "4", "da", "7", "7", "5", "6">>,
     <<"1", "2", "ga", "3", "4", "5">>}

\* The rosters of at most n rows, the k-th row named after k.
RECURSIVE RostersUpTo(_)
RostersUpTo(n) ==
    IF n = 0 THEN {<<>>}
    ELSE RostersUpTo(n - 1) \cup
         {Append(r, Row(p, <<"U">> \o IntText(Len(r) + 1), <<"D">> \o IntText(Len(r) + 1))) :
             r \in RostersUpTo(n - 1), p \in RosterPlates}

\* Extracted plates: with the suffix 3456 in several forms, with another
\* suffix, with too few digits at all or in the last run, without digits,
\* and empty.
PlateInputs ==
    {<<"9", "9", "na", "3", "4", "5", "6">>, <<"1", "2", "ga", "3", "4", "5", "6">>,
     <<"3", "4", "5", "6">>, <<"1", "2", "3", "4", "5", "6">>, <<"9", "9", "na", " ", "3", "4", "5", "6", "-">>,
     <<"3", "4", "da", "7", "7", "5", "6">>, <<"3", "4", "5">>, <<"ga", "na">>,
     <<"3", "4", "5", "6", "ga", "1", "2">>, <<>>}

InitMatch ==
    /\ BeforeCall
    /\ vehicle_users_df = None \/ vehicle_users_df \in RostersUpTo(MaxRows)
    /\ arg \in PlateInputs

\* matched_vehicle = match_vehicle_number(ocr_results.get("차량번호", ""))
CallMatchVehicleNumber ==
    /\ pc = "call"
    /\ ret' = MatchVehicleNumber(arg)
    /\ pc' = "return"
    /\ UNCHANGED <<cvars, arg>>

SpecMatch == InitMatch /\ [][CallMatchVehicleNumber]_vars

(***************************************************************************)
(* Claims about the template-acquisition wizard, checked under Spec.       *)
(***************************************************************************)
\* The rectangle of a two-point selection.
RectOf(t) == <<t[1][1], t[1][2], t[2][1], t[2][2]>>

\* The min/max rectangle of two points.
Normalized(p, q) ==
    <<Min(p[1], q[1]), Min(p[2], q[2]), Max(p[1], q[1]), Max(p[2], q[2])>>

\* A Region as the data model wants it.
ValidRegion(r) == r[1] < r[3] /\ r[2] < r[4]

\* The step is a click delivery, and the point it delivers (image pixels).
ClickStep == lastOp'.op = "click"
ClickPoint == <<ToOriginal(lastOp'.pt[1]), ToOriginal(lastOp'.pt[2])>>

\* C1: after any sequence of acquisition operations every Region stored in
\* coordinates has x1 < x2 and y1 < y2.
C1_EveryRegionValid ==
    \A f \in DOMAIN coordinates : ValidRegion(coordinates[f])

\* C2 as stated: a click in AwaitingBottomRight at a point that differs from
\* the stored first point in both x and y commits the normalized Region for
\* the current field, advances the cursor and returns to AwaitingTopLeft, by
\* itself.
C2_SecondClickCommits ==
    [][(/\ ClickStep
        /\ click_step = 1
        /\ ClickPoint[1] # temp_coords[1][1]
        /\ ClickPoint[2] # temp_coords[1][2])
       => /\ coordinates' = DictSet(coordinates, CurrentField,
                                    Normalized(temp_coords[1], ClickPoint))
          /\ current_field_index' = current_field_index + 1
          /\ click_step' = 0]_vars

\* C2 as amended: such a click stores the min/max-normalized pair as the
\* in-progress selection and commits nothing (Regions, cursor and click step
\* stay); Apply then commits the selected rectangle for the current field,
\* advances the cursor by one and returns to AwaitingTopLeft.
C2_SecondClickSelectsApplyCommits ==
    [][/\ (/\ ClickStep
           /\ click_step = 1
           /\ ClickPoint[1] # temp_coords[1][1]
           /\ ClickPoint[2] # temp_coords[1][2])
          => /\ Len(temp_coords') = 2
             /\ RectOf(temp_coords') = Normalized(temp_coords[1], ClickPoint)
             /\ click_step' = 1
             /\ UNCHANGED <<coordinates, current_field_index>>
       /\ lastOp'.op = "apply"
          => /\ Len(temp_coords) = 2
             /\ coordinates' = DictSet(coordinates, CurrentField, RectOf(temp_coords))
             /\ current_field_index' = current_field_index + 1
             /\ temp_coords' = <<>>
             /\ click_step' = 0]_vars

\* C2, the case reached: clicks (50,50) and (200,100), then Apply, have left
\* [50,50,200,100] as the first field's Region.
C2_Witness ==
    /\ lastOp.op = "apply"
    /\ current_field_index = 1
    /\ FIELDS[1] \in DOMAIN coordinates
    /\ coordinates[FIELDS[1]] = <<50, 50, 200, 100>>
    /\ last_click_sig = <<200, 100, 0, 1>>

\* C3: a second click with the first point's x, or the first point's y, is
\* rejected: the selection, the click step, the cursor and the Regions stay
\* as they were.
C3_DegenerateClickRejected ==
    [][(/\ ClickStep
        /\ click_step = 1
        /\ \/ ClickPoint[1] = temp_coords[1][1]
           \/ ClickPoint[2] = temp_coords[1][2])
       => UNCHANGED <<temp_coords, click_step, current_field_index, coordinates>>]_vars

\* C7: a click whose signature (point, field index, click step) is that of
\* the last handled click changes nothing of the acquisition state.
C7_SameSignatureNoTransition ==
    [][(/\ ClickStep
        /\ ClickSig(lastOp'.pt[1], lastOp'.pt[2]) = last_click_sig)
       => UNCHANGED <<temp_coords, click_step, current_field_index, coordinates>>]_vars

\* C7, the case reached: a click was delivered and dropped, the field still
\* awaits its first point under the signature of the earlier click.
C7_Witness ==
    /\ lastOp.op = "click"
    /\ click_step = 0
    /\ temp_coords = <<>>
    /\ last_click_sig = <<lastOp.pt[1], lastOp.pt[2], current_field_index, 0>>

\* C8: skip advances the cursor by exactly one and leaves the Regions as they
\* are; when the cursor is at N no skipped field has a Region.
C8_SkipAddsNoRegion ==
    [][/\ lastOp'.op = "skip"
          => /\ current_field_index' = current_field_index + 1
             /\ coordinates' = coordinates
       /\ current_field_index' = Len(FIELDS)
          => \A f \in skipped' : f \notin DOMAIN coordinates']_vars

\* C8, the case reached: a template finished by a skip, with one field
\* captured and another skipped.
C8_Witness ==
    /\ lastOp.op = "skip"
    /\ current_field_index = Len(FIELDS)
    /\ skipped # {}
    /\ DOMAIN coordinates # {}

\* C9: reset empties the Regions, puts the cursor at 0 and clears the
\* selection; soft reset clears the selection only, Regions and cursor stay.
C9_ResetAndSoftReset ==
    [][/\ lastOp'.op = "reset"
          => /\ coordinates' = EmptyDict
             /\ current_field_index' = 0
             /\ temp_coords' = <<>>
             /\ click_step' = 0
       /\ lastOp'.op = "soft_reset"
          => /\ temp_coords' = <<>>
             /\ click_step' = 0
             /\ UNCHANGED <<coordinates, current_field_index>>]_vars

\* C9, the case reached: a reset has cleared committed Regions before, and a
\* soft reset has just run with a Region committed and the cursor past 0.
C9_Witness ==
    /\ cleared
    /\ lastOp.op = "soft_reset"
    /\ DOMAIN coordinates # {}
    /\ current_field_index > 0

\* C10: manual override commits a rectangle with x1 < x2 and y1 < y2 and
\* advances the cursor, rejects any other leaving the state as it was, and
\* the click path commits exactly the rectangles manual override accepts.
C10_ManualAndClickValidateAlike ==
    [][/\ lastOp'.op = "manual"
          => IF ManualValid(lastOp'.pt[1], lastOp'.pt[2], lastOp'.pt[3], lastOp'.pt[4])
             THEN /\ coordinates' = DictSet(coordinates, CurrentField, lastOp'.pt)
                  /\ current_field_index' = current_field_index + 1
                  /\ temp_coords' = <<>>
                  /\ click_step' = 0
             ELSE UNCHANGED <<coordinates, current_field_index, temp_coords, click_step>>
       /\ lastOp'.op = "apply"
          => ManualValid(temp_coords[1][1], temp_coords[1][2],
                         temp_coords[2][1], temp_coords[2][2])]_vars

\* The least and the greatest of a set of numbers.
Least(S) == CHOOSE m \in S : \A z \in S : m <= z
Greatest(S) == CHOOSE m \in S : \A z \in S : z <= m

\* (min x, min y, max x, max y) of a set of points, whatever their order.
BoxOf(S) ==
    <<Least({p[1] : p \in S}), Least({p[2] : p \in S}),
      Greatest({p[1] : p \in S}), Greatest({p[2] : p \in S})>>

\* C11: two clicks at points p and q that differ in both coordinates select
\* the Region (min x, min y, max x, max y) of the set {p, q}, so clicking p
\* then q and clicking q then p select the same Region.
C11_ReversedClicksSameRegion ==
    [][(/\ ClickStep
        /\ click_step = 1
        /\ Len(temp_coords) = 1
        /\ ClickPoint[1] # temp_coords[1][1]
        /\ ClickPoint[2] # temp_coords[1][2])
       => /\ Len(temp_coords') = 2
          /\ RectOf(temp_coords') = BoxOf({temp_coords[1], ClickPoint})]_vars

\* C11, the case reached: the bottom-right corner (200,100) was clicked
\* first and the top-left corner (50,50) second, and [50,50,200,100] is the
\* selection, as for the clicks in the other order.
C11_Witness ==
    /\ lastOp = Op("click", <<50, 50>>)
    /\ last_click_sig = <<50, 50, current_field_index, 1>>
    /\ temp_coords = << <<50, 50>>, <<200, 100>> >>
    /\ click_step = 1

(***************************************************************************)
(* Claims about the batch, checked under SpecBatch.                        *)
(***************************************************************************)
\* A page that takes the keyword path whatever the provider does.
NeverBlocked(k) == ~ClassifyImageType(Strip(uploaded_images[k].text))

HasRecord(rs, k) == \E i \in 1..Len(rs) : rs[i].Index = k

\* C4: when a police page meets an empty template the run reports it and
\* stops only that page: every other page of the batch that can proceed,
\* before it or after it, has its record in the batch output.
C4_BlockedPageStopsOnlyThatPage ==
    (pc = "returned" /\ "no template" \in messages) =>
        \A k \in (1..Len(uploaded_images)) \ {idx} :
            NeverBlocked(k) => HasRecord(batch_results, k)

\* C5: when the batch finishes, the batch output holds exactly one record
\* per input page, record k carrying page k's file name, index and class,
\* and the order shown (sorted by index) is the input order.
C5_OneRecordPerPageInOrder ==
    pc = "done" =>
        /\ Len(batch_results) = Len(uploaded_images)
        /\ \A k \in 1..Len(uploaded_images) :
              /\ batch_results[k].Index = k
              /\ batch_results[k].FileName = FileName(k)
              /\ batch_results[k].Classification \in {"police", "generic"}
        /\ SortedByIndex(batch_results) = batch_results

\* A finished batch of a police page followed by a generic one.
C5_Witness ==
    /\ pc = "done"
    /\ Len(batch_results) = 2
    /\ batch_results[1].Classification = "police"
    /\ batch_results[2].Classification = "generic"

\* The last page processed went through process_template_based_ocr.
AfterTemplatePage ==
    /\ pc \in {"loop", "done"}
    /\ all_results # <<>>
    /\ is_police_notice

\* C6: after region-based extraction of a page in which the OCR calls of the
\* fields in failed raised, every field with a region has a value: "" for a
\* failed field, for any other field what extract_text_from_region returns
\* for it, which is not empty; and the page has its record, made of them.
C6_FieldFailureIsolated ==
    AfterTemplatePage =>
        LET k == Len(all_results)
            img == uploaded_images[k]
        IN  /\ DOMAIN ocr_results = DOMAIN coordinates
            /\ \A f \in DOMAIN coordinates :
                  IF f \in failed
                  THEN ocr_results[f] = <<>>
                  ELSE /\ ocr_results[f] = ExtractTextFromRegion(img, f, TRUE)
                       /\ ocr_results[f] # <<>>
            /\ all_results[k].Index = k
            /\ all_results[k].Classification = "police"
            /\ all_results[k].result.Fine = Get(ocr_results, "Fine")

\* A page where the plate's OCR call failed and the others did not.
C6_Witness ==
    /\ AfterTemplatePage
    /\ failed = {"PlateNumber"}
    /\ ocr_results["PlateNumber"] = <<>>
    /\ ocr_results["Date"] # <<>>
    /\ ocr_results["Fine"] # <<>>
    /\ pc = "done"

(***************************************************************************)
(* Claims about the text functions, each checked under the specification   *)
(* that calls the function.                                                *)
(***************************************************************************)
\* sub occurs in t.
Occurs(sub, t) ==
    \E i \in 0..Len(t) : i + Len(sub) <= Len(t) /\ SubSeq(t, i + 1, i + Len(sub)) = sub

\* t without its whitespace.
NoSpace(t) == SelectSeq(t, LAMBDA c : c \notin Whitespace)

\* C12: classify returns FixedLayout exactly when the marker occurs in the
\* text verbatim or, without its space, in the text with all whitespace
\* removed; every other text, the empty one too, is Generic.
C12_ClassifyIffMarker ==
    pc = "return" =>
        (ret <=> (Occurs(Marker, arg) \/ Occurs(NoSpace(Marker), NoSpace(arg))))

\* C12, the case reached: a text with the marker split over two lines,
\* nowhere verbatim, classified FixedLayout.
C12_Witness ==
    /\ pc = "return"
    /\ ret = TRUE
    /\ arg = <<"gyeong", "chal", "\n", "cheong", " ", "go", "ji">>
    /\ ~Occurs(Marker, arg)

\* A text of two digits that reads as a number of 1..hi, or "00".
TwoDigits(d, hi) ==
    /\ Len(d) = 2
    /\ IsDigit(d[1]) /\ IsDigit(d[2])
    /\ ToInt(d) <= hi

\* C16: for every input normalizeDate returns a 10-character YYYY/MM/DD:
\* four digits of year, a month that is "00" or 01..12, a day that is "00"
\* or 01..31.
C16_DateAlwaysCanonical ==
    pc = "return" =>
        /\ Len(ret) = 10
        /\ \A i \in 1..4 : IsDigit(ret[i])
        /\ ret[5] = "/" /\ ret[8] = "/"
        /\ TwoDigits(SubSeq(ret, 6, 7), 12)
        /\ TwoDigits(SubSeq(ret, 9, 10), 31)

\* C16, the case reached: month 13 and day 40 have become "00".
C16_Witness ==
    /\ pc = "return"
    /\ arg = <<"2", "0", "2", "4", "/", "1", "3", "/", "4", "0">>
    /\ ret = <<"2", "0", "2", "4", "/", "0", "0", "/", "0", "0">>

\* The current year, as four digits.
ThisYear == ZeroPad(CurrentYear, 4)

\* The year, month and day of a run of digits split 4-2-2, as normalizeDate
\* writes them.
Written(y, m, d) ==
    y \o <<"/">> \o (IF ToInt(m) \in 1..12 THEN m ELSE <<"0", "0">>)
      \o <<"/">> \o (IF ToInt(d) \in 1..31 THEN d ELSE <<"0", "0">>)

\* The first run of exactly n digits of t, or <<>>.
RunOf(t, n) ==
    IF \E i \in 1..Len(t) : RunStart(t, i) /\ RunLen(t, i) = n
    THEN LET i == First({k \in 1..Len(t) : RunStart(t, k) /\ RunLen(t, k) = n})
         IN  SubSeq(t, i, i + n - 1)
    ELSE <<>>

\* C17: normalizeDate reads the date off the first pattern that matches, in
\* the order eight digits, six digits (year prefixed "20"), three separated
\* groups, unit markers, month-day, loose digit runs, and takes the current
\* year when it finds none: a run of eight digits anywhere wins over every
\* other pattern, a run of six over all but that, a text that is blank or
\* has no digit gives <currentYear>/00/00, and the named examples give the
\* dates the specification names.
C17_DatePatternPriority ==
    pc = "return" =>
        /\ RunOf(arg, 8) # <<>> =>
              ret = Written(SubSeq(RunOf(arg, 8), 1, 4), SubSeq(RunOf(arg, 8), 5, 6),
                            SubSeq(RunOf(arg, 8), 7, 8))
        /\ (RunOf(arg, 8) = <<>> /\ RunOf(arg, 6) # <<>>) =>
              ret = Written(<<"2", "0">> \o SubSeq(RunOf(arg, 6), 1, 2),
                            SubSeq(RunOf(arg, 6), 3, 4), SubSeq(RunOf(arg, 6), 5, 6))
        /\ (\A i \in 1..Len(arg) : ~IsDigit(arg[i])) =>
              ret = ThisYear \o <<"/", "0", "0", "/", "0", "0">>
        /\ (arg = <<"2", "0", "2", "4", ".", "3", ".", "5">> => ret = <<"2", "0", "2", "4", "/", "0", "3", "/", "0", "5">>)
        /\ (arg = <<"2", "4", "-", "3", "-", "5">> => ret = <<"2", "0", "2", "4", "/", "0", "3", "/", "0", "5">>)
        /\ (arg = <<"2", "0", "2", "4", "0", "3", "0", "5">> => ret = <<"2", "0", "2", "4", "/", "0", "3", "/", "0", "5">>)
        /\ (arg = <<"2", "4", "0", "3", "0", "5">> => ret = <<"2", "0", "2", "4", "/", "0", "3", "/", "0", "5">>)
        /\ (arg = <<"0", "3", "-", "0", "5">> => ret = ThisYear \o <<"/", "0", "3", "/", "0", "5">>)
        /\ (arg = <<>> => ret = ThisYear \o <<"/", "0", "0", "/", "0", "0">>)
        \* eight digits before the separated groups
        /\ (arg = <<"2", "0", "2", "4", ".", "3", ".", "5", " ", "2", "0", "2", "3", "1", "2", "3", "1">> => ret = <<"2", "0", "2", "3", "/", "1", "2", "/", "3", "1">>)
        \* six digits before month-day
        /\ (arg = <<"0", "3", "-", "0", "5", " ", "2", "4", "1", "2", "3", "1">> => ret = <<"2", "0", "2", "4", "/", "1", "2", "/", "3", "1">>)
        \* separated groups before unit markers
        /\ (arg = <<"3", "wol", " ", "2", "0", "2", "4", ".", "1", ".", "2">> => ret = <<"2", "0", "2", "4", "/", "0", "1", "/", "0", "2">>)
        \* unit markers before month-day
        /\ (arg = <<"0", "3", "-", "0", "5", " ", "7", "il">> => ret = ThisYear \o <<"/", "0", "0", "/", "0", "7">>)
        \* month-day before the loose digit runs
        /\ (arg = <<"1", "2", "3", " ", "0", "3", "-", "0", "5">> => ret = ThisYear \o <<"/", "0", "3", "/", "0", "5">>)

\* C17, the case reached: a separated date followed by a run of eight
\* digits, read as the run.
C17_Witness ==
    /\ pc = "return"
    /\ arg = <<"2", "0", "2", "4", ".", "3", ".", "5", " ", "2", "0", "2", "3", "1", "2", "3", "1">>
    /\ ret = <<"2", "0", "2", "3", "/", "1", "2", "/", "3", "1">>

\* C14: whichever way a Fine is read, from the page's text or from the Fine
\* region, it is the empty string or an amount from MinFine to MaxFine
\* written with thousands separators and the currency suffix; the digits of a
\* hyphen-joined reference code are never the Fine.
FineOrEmpty(v) ==
    \/ v = <<>>
    \/ /\ InRange(ToInt(OnlyDigits(v)))
       /\ v = FormatWon(ToInt(OnlyDigits(v)))

\* The reference code of a notice, and the texts whose only digits are its.
ReferenceCode ==
    <<"2", "0", "2", "5", "-", "0", "6", "3", "8", "2", "2", "-", "0", "0">>

OnlyReferenceCode(t) ==
    Contains(t, ReferenceCode) /\ OnlyDigits(t) = OnlyDigits(ReferenceCode)

C14_FineEmptyOrInRange ==
    pc = "return" =>
        /\ FineOrEmpty(ret)
        /\ OnlyReferenceCode(arg) => ret = <<>>

\* What the cascade of field f gives on the text alone, the plate region
\* never read.
TextAlone(text, f) ==
    CASE f = "PlateNumber" -> VehicleNumberOf(text, <<>>)
      [] f = "Date"        -> ExtractDateFromText(text, ViolationDateKeywords)
      [] f = "Location"    -> ExtractLocationFromText(text)
      [] f = "Fine"        -> ExtractFineAmountFromText(text)
      [] f = "DueDate"     -> ExtractDateFromText(text, DueDateKeywords)
      [] OTHER             -> ExtractViolationContentFromText(text)

\* The four digits the plate region of the current page gives: those of its
\* post-processed text, when the template has the region and its OCR call
\* did not fail.
RegionDigits ==
    IF "PlateNumber" \in DOMAIN coordinates /\ "PlateNumber" \notin failed
    THEN FourDigits((
             PostProcessText("PlateNumber", Strip(uploaded_image.region["PlateNumber"]))))
    ELSE <<>>

\* C13 as stated: the keyword extraction of a page depends on its text only.
\* Every field, the plate included, is what the text alone gives whatever
\* the page image, the template and the OCR provider are, and no OCR call is
\* made, so none can fail.
C13_KeywordUsesTextOnly ==
    pc = "return" =>
        /\ \A f \in AllFields : ocr_results[f] = TextAlone(arg, f)
        /\ failed = {}

\* C13 as the code has it: Date, Location, Fine, DueDate and Description are
\* what the text alone gives.  So is PlateNumber when the template has no
\* plate region, and then no OCR call is made; when it has one, that region
\* of the page image is read first and the four digits found there are the
\* PlateNumber, the text being used only when the region gives none.
C13_OnlyPlateReadsItsRegion ==
    pc = "return" =>
        /\ \A f \in AllFields \ {"PlateNumber"} : ocr_results[f] = TextAlone(arg, f)
        /\ ocr_results["PlateNumber"] =
               IF RegionDigits # <<>> THEN RegionDigits
               ELSE TextAlone(arg, "PlateNumber")
        /\ "PlateNumber" \notin DOMAIN coordinates =>
               /\ failed = {}
               /\ ocr_results["PlateNumber"] = TextAlone(arg, "PlateNumber")

\* A page whose text gives the plate 3456 and whose plate region reads 7777.
C13_Witness ==
    /\ pc = "return"
    /\ "PlateNumber" \in DOMAIN coordinates
    /\ uploaded_image = PageOtherPlate
    /\ arg = <<"cha", "ryang", "beon", "ho", "1", "2", "ga", "3", "4", "5", "6">>
    /\ TextAlone(arg, "PlateNumber") = <<"3", "4", "5", "6">>
    /\ ocr_results["PlateNumber"] = <<"7", "7", "7", "7">>
    /\ ocr_results["Date"] = <<"2", "0", "2", "6", "/", "0", "0", "/", "0", "0">>

\* No tier of the cascade of field f can match the text t: no four digits
\* in a row for the plate (nor in the plate region), no digit for the dates,
\* no location word for the location, fewer than five digits for the fine,
\* no violation or content word for the description.
HasWord(t, keys) == \E k \in 1..Len(keys) : Occurs(keys[k], t)

NothingFor(f, t) ==
    CASE f = "PlateNumber" ->
             /\ RegionDigits = <<>>
             /\ \A i \in 1..Len(NoSpace(t)) : RunLen(NoSpace(t), i) < 4
      [] f \in {"Date", "DueDate"} -> OnlyDigits(t) = <<>>
      [] f = "Location" -> ~HasWord(Lower(t), LocationKeywords)
      [] f = "Fine" -> Len(OnlyDigits(t)) < 5
      [] OTHER -> ~HasWord(t, ViolationKeywords) /\ ~HasWord(t, ContentKeywords)

\* The date normalizer's fallback in the current year.
NoDate == ThisYear \o <<"/", "0", "0", "/", "0", "0">>

\* C15 as stated: each of the six fields is the empty string when no tier of
\* its cascade matches the page text.
C15_EveryCascadeFailsToEmpty ==
    pc = "return" =>
        \A f \in AllFields : NothingFor(f, arg) => ocr_results[f] = <<>>

\* C15 as the code has it: when no tier of its cascade matches the page text,
\* PlateNumber, Location, Fine and Description are the empty string, and
\* Date and DueDate are the normalizer's fallback, the current year with
\* month and day 00; every field has a value.
C15_CascadesFailSoft ==
    pc = "return" =>
        /\ DOMAIN ocr_results = AllFields
        /\ \A f \in AllFields :
              NothingFor(f, arg) =>
                  ocr_results[f] = IF f \in {"Date", "DueDate"} THEN NoDate ELSE <<>>

\* A page with nothing to find in its text nor in its plate region.
C15_Witness ==
    /\ pc = "return"
    /\ arg = <<"go", "ji", "\n">>
    /\ uploaded_image = PageNoPlate
    /\ "PlateNumber" \in DOMAIN coordinates
    /\ failed = {}
    /\ \A f \in AllFields : NothingFor(f, arg)
    /\ ocr_results["PlateNumber"] = <<>>
    /\ ocr_results["Location"] = <<>>
    /\ ocr_results["Fine"] = <<>>
    /\ ocr_results["Description"] = <<>>
    /\ ocr_results["Date"] = <<"2", "0", "2", "6", "/", "0", "0", "/", "0", "0">>
    /\ ocr_results["DueDate"] = <<"2", "0", "2", "6", "/", "0", "0", "/", "0", "0">>

\* C18: in every compiled record the reduced amount is floor(0.8 x Fine)
\* written with thousands separators and the currency suffix when the Fine
\* has digits, and the empty string, not a zero amount, when the Fine is
\* empty or has no digit.
C18_DiscountOrEmpty ==
    \A k \in 1..Len(all_results) :
        LET r == all_results[k].result
            n == ToInt(OnlyDigits(r.Fine))
        IN  IF OnlyDigits(r.Fine) # <<>>
            THEN r.Discounted = Thousands((4 * n) \div 5) \o <<Won>>
            ELSE r.Discounted = <<>>

\* The suffix key of a text: the last four digits, or fewer, of its final
\* run of digits; <<>> for a text without digits.
SuffixKey(t) ==
    LET D == {i \in 1..Len(t) : t[i] \in Digits}
        e == Greatest(D)
        s == Least({i \in 1..e : \A j \in i..e : j \in D})
    IN  IF D = {} THEN <<>>
        ELSE SubSeq(t, IF e - s >= 4 THEN e - 3 ELSE s, e)

\* The rows of the roster that share the suffix key of the extracted plate.
SameSuffixRows ==
    IF vehicle_users_df = None THEN {}
    ELSE {k \in 1..Len(vehicle_users_df) :
             SuffixKey(RowPlate(vehicle_users_df[k])) = SuffixKey(arg)}

\* C19: matchPlate returns none when the final run of digits of the
\* extracted text has fewer than four digits, when the roster is absent, or
\* when no roster entry has the same four-digit suffix; and an entry it
\* returns is an entry of the roster whose suffix key is that of the
\* extracted text, whatever else the two strings hold.
C19_MatchOnlySameSuffix ==
    pc = "return" =>
        /\ (Len(SuffixKey(arg)) < 4 \/ vehicle_users_df = None \/ SameSuffixRows = {})
               => ret = None
        /\ ret # None =>
               /\ Len(SuffixKey(arg)) = 4
               /\ \E k \in SameSuffixRows : ret = vehicle_users_df[k]
               /\ SuffixKey(RowPlate(ret)) = SuffixKey(arg)

\* "99나3456" is matched with the roster's "12가3456".
C19_Witness ==
    /\ pc = "return"
    /\ arg = <<"9", "9", "na", "3", "4", "5", "6">>
    /\ vehicle_users_df # None
    /\ ret # None
    /\ RowPlate(ret) = <<"1", "2", "ga", "3", "4", "5", "6">>

\* The rows with the greatest similarity to the extracted plate among those
\* that share its suffix key.
BestRows ==
    {k \in SameSuffixRows :
        \A j \in SameSuffixRows :
            ~Greater(Ratio(arg, RowPlate(vehicle_users_df[j])),
                     Ratio(arg, RowPlate(vehicle_users_df[k])))}

\* C20: when an entry of the roster shares the four-digit suffix key of the
\* extracted plate, matchPlate returns an entry, never none: the one with the
\* greatest similarity to the extracted string among the entries with that
\* suffix, and the first of them in roster order when several have it.
C20_BestSameSuffixFirstOnTies ==
    (pc = "return" /\ Len(SuffixKey(arg)) = 4 /\ SameSuffixRows # {}) =>
        /\ ret # None
        /\ ret = vehicle_users_df[Least(BestRows)]

\* Every row shares the suffix and the first is not the most similar: the
\* most similar row is returned.
C20_Witness ==
    /\ pc = "return"
    /\ arg = <<"9", "9", "na", "3", "4", "5", "6">>
    /\ vehicle_users_df # None
    /\ Len(vehicle_users_df) >= 2
    /\ SameSuffixRows = 1..Len(vehicle_users_df)
    /\ Least(BestRows) > 1
    /\ ret = vehicle_users_df[Least(BestRows)]

\* A step of the loop that compiles the record of the current page: the page
\* is not a police notice met with an empty template.
CompilesPage ==
    /\ pc = "loop"
    /\ idx <= Len(uploaded_images)
    /\ ~(is_police_notice' /\ coordinates = EmptyDict)

\* C21: a failed plate match never aborts a page.  When match_vehicle_number
\* returns None for the plate the page gave, the step still appends the
\* page's record, with the department and the user "match failed" and the
\* plate the extracted plate text, and the loop goes on to the next page.
C21_FailedMatchKeepsPage ==
    [][(CompilesPage /\ MatchVehicleNumber(Get(ocr_results', "PlateNumber")) = None) =>
          /\ Len(all_results') = Len(all_results) + 1
          /\ SubSeq(all_results', 1, Len(all_results)) = all_results
          /\ all_results'[idx].Index = idx
          /\ all_results'[idx].result.Department = Unmatched
          /\ all_results'[idx].result.User = Unmatched
          /\ all_results'[idx].result.Plate = Get(ocr_results', "PlateNumber")
          /\ idx' = idx + 1
          /\ pc' = "loop"]_vars

\* C21, the case reached: with a roster loaded, the first page gave a plate
\* no row of the roster matches, its record says so, and a page remains.
C21_Witness ==
    /\ pc = "loop"
    /\ vehicle_users_df = RosterSample
    /\ idx = 2
    /\ idx <= Len(uploaded_images)
    /\ Len(all_results) = 1
    /\ Get(ocr_results, "PlateNumber") # <<>>
    /\ MatchVehicleNumber(Get(ocr_results, "PlateNumber")) = None
    /\ all_results[1].result.Department = Unmatched
    /\ all_results[1].result.Plate = Get(ocr_results, "PlateNumber")

\* What compile_final_results gives for a page taken alone: the page image
\* img, the stored template and the roster, and what the OCR provider does
\* with the page (full_ok: the call for the whole image works; bad: the
\* regions whose call fails).  No variable a page writes is read.
PageRecord(img, full_ok, bad) ==
    LET OfResults(ocr) ==
            CompileFinalResults(MatchVehicleNumber(Get(ocr, "PlateNumber")), ocr)
        OfText(full_text) ==
            IF ClassifyImageType(full_text)
            THEN OfResults(ProcessTemplateBasedOcr(img, bad))
            ELSE OfResults(ProcessKeywordBasedOcr(full_text, img, bad))
    IN  Only({OfText(full_text) : full_text \in {PerformFullImageOcr(img, full_ok)}})

\* C22: the record of a page is a function of the page's own image and text,
\* the template and the roster only.  The step that compiles page idx appends
\* the record that page gives taken alone, whatever the pages before it left
\* in full_ocr_text, is_police_notice and ocr_results; the records of the
\* pages before it stay as they are; and no step of the batch changes the
\* template or the roster.
C22_RecordOfPageAlone ==
    [][/\ coordinates' = coordinates
       /\ vehicle_users_df' = vehicle_users_df
       /\ CompilesPage =>
             /\ Len(all_results') = Len(all_results) + 1
             /\ SubSeq(all_results', 1, Len(all_results)) = all_results
             /\ \E full_ok \in BOOLEAN :
                   /\ full_ocr_text' = PerformFullImageOcr(uploaded_images[idx], full_ok)
                   /\ all_results'[Len(all_results')].result
                          = PageRecord(uploaded_images[idx], full_ok, failed')]_vars

\* C22, the case reached: a page whose text gave the plate 3456 and a match,
\* then a police page whose plate region could not be read; the record of
\* the second page has no plate and no match, nothing of the first page.
C22_Witness ==
    /\ pc = "done"
    /\ coordinates = TemplateSample
    /\ vehicle_users_df = RosterSample
    /\ Len(batch_results) = 2
    /\ uploaded_images[1] = PageGeneric
    /\ uploaded_images[2] = PagePolice
    /\ failed = {"PlateNumber"}
    /\ batch_results[1].result.Department # Unmatched
    /\ batch_results[1].result.Plate # <<>>
    /\ batch_results[2].result.Department = Unmatched
    /\ batch_results[2].result.Plate = <<>>
    /\ batch_results[2].result.Fine # <<>>

\* C23 as stated: after "select again", or after apply or skip has put the
\* field back to awaiting its first point, a click at any point of the image
\* is taken as the new first point, also at the point of the click handled
\* just before; the signature left by an earlier click drops no new click.
C23_ClickAfterResetAccepted ==
    [][(/\ ClickStep
        /\ lastOp.op \in {"soft_reset", "apply", "skip"}
        /\ click_step = 0
        /\ 0 <= ClickPoint[1] /\ ClickPoint[1] < OriginalSize[1]
        /\ 0 <= ClickPoint[2] /\ ClickPoint[2] < OriginalSize[2])
       => /\ temp_coords' = <<ClickPoint>>
          /\ click_step' = 1]_vars

\* C24: normalizeDate is idempotent on its own outputs.  For every input s,
\* fmt_date_uniform(fmt_date_uniform(s)) = fmt_date_uniform(s): the second
\* normalization, the one compile_final_results applies to a date that
\* post_process_text has normalized already, changes nothing.  (ret is what
\* the call returned for arg.)
C24_DateIdempotent ==
    pc = "return" => FmtDateUniform(ret) = ret

\* C24, the case reached: a date the first normalization rewrote, with the
\* year completed and the month and day padded, and the second leaves alone.
C24_Witness ==
    /\ pc = "return"
    /\ arg = <<"2", "4", "-", "3", "-", "5">>
    /\ ret = <<"2", "0", "2", "4", "/", "0", "3", "/", "0", "5">>
    /\ FmtDateUniform(ret) = ret

\* C25: in every state reachable while the wizard is in the template-setup
\* step, 0 <= current_field_index <= N (N the number of fields), every field
\* that has a committed Region lies strictly before the cursor in the order
\* of FIELDS, click_step is 0 (awaiting the first point) exactly when the
\* in-progress selection is empty, and the selection never holds more than
\* two points.
C25_SetupInvariant ==
    current_step = "template_setup" =>
        /\ 0 <= current_field_index
        /\ current_field_index <= Len(FIELDS)
        /\ \A f \in DOMAIN coordinates :
              \E i \in 1..current_field_index : FIELDS[i] = f
        /\ (click_step = 0) <=> (temp_coords = <<>>)
        /\ Len(temp_coords) <= 2

\* C25, the case reached: after a reset that cleared committed Regions, the
\* first field has its Region again, the cursor is on the second field and
\* both points of its selection are clicked.
C25_Witness ==
    /\ current_step = "template_setup"
    /\ cleared
    /\ current_field_index = 1
    /\ DOMAIN coordinates = {FIELDS[1]}
    /\ Len(temp_coords) = 2
    /\ click_step = 1

=========================================================================
